---- MODULE Spec2Model ----
(***************************************************************************)
(* localdeck: content-addressed music catalog.                             *)
(*                                                                         *)
(* The model covers the storage facade (src/src/storage/operations.rs),    *)
(* the file-system observer (src/src/storage/fs.rs), the catalog schema    *)
(* (src/src/storage/schema.rs) and the content identity                    *)
(* (src/src/domain/hash.rs).                                               *)
(*                                                                         *)
(* Paths and catalog strings are sequences of one-character strings, so    *)
(* that the conversions the code performs on them (to_string_lossy, SQL    *)
(* LIKE, extension matching) are computed character by character.          *)
(***************************************************************************)
EXTENDS Integers, Sequences, FiniteSets, Bags, TLC

VARIABLES tracks, files, track_metadata, updates, last, lock, workers

vars == <<tracks, files, track_metadata, updates, last, lock, workers>>

\* the Mutex around the Storage of the HTTP server: the workers that hold
\* its guard, and whether a holder has panicked
FreeLock == [held_by |-> {}, poisoned |-> FALSE]

(***************************************************************************)
(* Bounds of the model.                                                    *)
(***************************************************************************)
MaxSnapshotLen == 2

MaxBatch == 1

MaxLedger == 2

MaxClock == 1

(***************************************************************************)
(* Characters.  InvalidByte is a byte that is not valid UTF-8 (file names  *)
(* on Unix are arbitrary bytes); ReplacementChar is U+FFFD.                *)
(***************************************************************************)
InvalidByte == "<FF>"

ReplacementChar == "<U+FFFD>"

UpperCase == <<"A", "B", "C", "F", "M", "O", "P", "T", "X">>

LowerCase == <<"a", "b", "c", "f", "m", "o", "p", "t", "x">>

\* char::to_lowercase / SQLite's ASCII case folding, on the model's alphabet
to_lowercase_table ==
    [c \in {UpperCase[i] : i \in 1..Len(UpperCase)} |->
        LowerCase[CHOOSE i \in 1..Len(UpperCase) : UpperCase[i] = c]]

to_lowercase_char(c) ==
    IF c \in DOMAIN to_lowercase_table THEN to_lowercase_table[c] ELSE c

to_lowercase(s) == [i \in 1..Len(s) |-> to_lowercase_char(s[i])]

\* the suffix of s that starts at position k
Suffix(s, k) == SubSeq(s, k, Len(s))

\* the sequence of the elements of a finite set, in some fixed order
RECURSIVE SetToSeq(_)
SetToSeq(S) ==
    IF S = {} THEN <<>>
    ELSE LET x == CHOOSE y \in S : TRUE IN <<x>> \o SetToSeq(S \ {x})

Range(s) == {s[i] : i \in 1..Len(s)}

\* sequences over S of length at most n
SeqsUpTo(S, n) == UNION {[1..k -> S] : k \in 0..n}

(***************************************************************************)
(* Paths of the library.  The model's file system holds the first two of   *)
(* them: a plain file name, and one that is not valid UTF-8 in a           *)
(* subdirectory.                                                           *)
(***************************************************************************)
AllPaths ==
    << <<"/", "m", "/", "a", ".", "m", "p", "3">>,
       <<"/", "m", "/", "s", "/", InvalidByte, ".", "m", "p", "3">>,
       <<"/", "m", "/", "t", ".", "t", "x", "t">>,
       <<"/", "m", "2", "/", "c", ".", "m", "p", "3">>,
       <<"/", "M", "/", "b", ".", "M", "P", "3">> >>

Paths == {AllPaths[1], AllPaths[2]}

(***************************************************************************)
(* Content identity (domain/hash.rs).  A digest is modelled by a number    *)
(* below 256 (one byte instead of blake3's 32), its hex form by two        *)
(* characters.  EmptyId is the digest of the empty byte string.            *)
(***************************************************************************)
\* the contents a file of the model can have: empty, or one other
TrackIds == {1, 2}

EmptyId == 1

DigestHexLen == 2

HexDigits == <<"0", "1", "2", "3", "4", "5", "6", "7", "8", "9",
               "a", "b", "c", "d", "e", "f">>

\* an encoding without the leading zero
to_hex_short(id) ==
    IF id < 16 THEN <<HexDigits[id + 1]>>
    ELSE <<HexDigits[(id \div 16) + 1], HexDigits[(id % 16) + 1]>>

to_hex(id) == <<HexDigits[(id \div 16) + 1], HexDigits[(id % 16) + 1]>>

UpperHexDigits == <<"0", "1", "2", "3", "4", "5", "6", "7", "8", "9",
                    "A", "B", "C", "D", "E", "F">>

\* blake3's from_hex takes the digits in either case
HexValue(c) ==
    IF \E i \in 1..16 : HexDigits[i] = c
    THEN (CHOOSE i \in 1..16 : HexDigits[i] = c) - 1
    ELSE IF \E i \in 1..16 : UpperHexDigits[i] = c
    THEN (CHOOSE i \in 1..16 : UpperHexDigits[i] = c) - 1
    ELSE -1

\* Err is modelled by -1
from_hex(s) ==
    IF Len(s) = DigestHexLen /\ \A i \in 1..Len(s) : HexValue(s[i]) >= 0
    THEN HexValue(s[1]) * 16 + HexValue(s[2])
    ELSE -1

(***************************************************************************)
(* File-system observer (storage/fs.rs).                                   *)
(*                                                                         *)
(* A disk maps every path to what is there: nothing, an entry that cannot  *)
(* be read as a file (a directory, or a file without read permission), or  *)
(* a readable file, given by the identity of its bytes.                    *)
(***************************************************************************)
Absent == [kind |-> "absent", readable |-> FALSE, content |-> 0]

\* a file that cannot be opened (its bytes are unknown to the program)
Unreadable == [kind |-> "file", readable |-> FALSE, content |-> 0]

File(id) == [kind |-> "file", readable |-> TRUE, content |-> id]

DiskEntries == {Absent, Unreadable} \cup {File(id) : id \in TrackIds}

Disks == [Paths -> DiskEntries]

MUSIC_EXTENSIONS ==
    { <<"m", "p", "3">>, <<"f", "l", "a", "c">>, <<"w", "a", "v">>,
      <<"m", "4", "a">>, <<"o", "g", "g">>, <<"a", "a", "c">> }

\* Path::file_name: the characters after the last '/'
file_name(path) ==
    LET slashes == {i \in 1..Len(path) : path[i] = "/"} IN
    IF slashes = {} THEN path
    ELSE Suffix(path, (CHOOSE i \in slashes : \A j \in slashes : j <= i) + 1)

\* Path::extension: the characters after the last '.' of the file name,
\* none when there is no '.' or the only one is the first character
HasExtension(path) ==
    \E i \in 2..Len(file_name(path)) : file_name(path)[i] = "."

extension(path) ==
    LET name == file_name(path)
        dots == {i \in 2..Len(name) : name[i] = "."}
    IN  Suffix(name, (CHOOSE i \in dots : \A j \in dots : j <= i) + 1)

\* OsStr::to_str succeeds only on valid UTF-8
IsUtf8(s) == \A i \in 1..Len(s) : s[i] # InvalidByte

is_music_file(path) ==
    /\ HasExtension(path)
    /\ IsUtf8(extension(path))
    /\ to_lowercase(extension(path)) \in MUSIC_EXTENSIONS

ObservedFile(id, path) == [track_id |-> id, path |-> path]

\* the entries of the walk that are music files
WalkedMusicPaths(disk) ==
    {p \in DOMAIN disk : disk[p].kind # "absent" /\ is_music_file(p)}

\* TrackId::from_file fails on an entry that cannot be read
ScanFails(disk) == \E p \in WalkedMusicPaths(disk) : ~disk[p].readable

\* scan_dirs, when every TrackId::from_file succeeds
scan_dirs(disk) ==
    SetToSeq({ObservedFile(disk[p].content, p) : p \in WalkedMusicPaths(disk)})

\* FsSnapshot::scan
FsSnapshot_scan(disk) ==
    IF ScanFails(disk) THEN [ok |-> FALSE, err |-> "Fs"]
    ELSE [ok |-> TRUE, files |-> scan_dirs(disk)]

is_valid_music_path(disk, path) ==
    /\ path \in DOMAIN disk
    /\ disk[path].kind # "absent"
    /\ disk[path].kind = "file"
    /\ is_music_file(path)
    /\ disk[path].content # EmptyId
    /\ disk[path].readable

(***************************************************************************)
(* Reconciliation (storage/operations.rs, TrackChange and Storage::diff).  *)
(***************************************************************************)
new_locations(change) == change.fs_locations \ change.db_locations

\* a deleted_locations that forgets to take the file-system set away
deleted_locations_all(change) == change.db_locations

deleted_locations(change) == change.db_locations \ change.fs_locations

is_new(change) == change.db_locations = {}

is_deleted(change) == change.fs_locations = {}

\* the first loop of Storage::diff
DiffFsLoop(fs_files) ==
    [t \in {f.track_id : f \in fs_files} |->
        [fs_locations |-> {f.path : f \in {g \in fs_files : g.track_id = t}},
         db_locations |-> {}]]

\* the second loop of Storage::diff
DiffDbLoop(locs, db_files) ==
    [t \in (DOMAIN locs) \cup {f.track_id : f \in db_files} |->
        [fs_locations |-> IF t \in DOMAIN locs THEN locs[t].fs_locations ELSE {},
         db_locations |-> {f.path : f \in {g \in db_files : g.track_id = t}}]]

\* an Unchanged that takes a superset on disk for no change
Unchanged_subset(locs) ==
    {t \in DOMAIN locs : locs[t].db_locations \subseteq locs[t].fs_locations}

\* an Unchanged that never drops an identity
Unchanged_none(locs) == {}

Unchanged(locs) ==
    {t \in DOMAIN locs : locs[t].db_locations = locs[t].fs_locations}

diff(fs, ds) ==
    LET fs_files == Range(fs.files)
        db_files == Range(ds.files)
        locs == DiffDbLoop(DiffFsLoop(fs_files), db_files)
    IN  [t \in (DOMAIN locs) \ Unchanged(locs) |-> locs[t]]

\* the label the status command prints for an entry of the diff (cli/mod.rs)
StatusLabel(change) ==
    IF is_new(change) THEN "NEW"
    ELSE IF is_deleted(change) THEN "DELETED"
    ELSE "MOVED / COPIED"

(***************************************************************************)
(* Storage::diff as a pure function: the two snapshots are drawn from all  *)
(* lists of at most MaxSnapshotLen observed files.                         *)
(***************************************************************************)
ObservedFiles == {ObservedFile(t, p) : t \in TrackIds, p \in Paths}

SnapshotLists == SeqsUpTo(ObservedFiles, MaxSnapshotLen)

InitDiff ==
    /\ tracks = EmptyBag
    /\ files = EmptyBag
    /\ track_metadata = {}
    /\ updates = <<>>
    /\ lock = FreeLock
    /\ workers = <<>>
    /\ \E f \in SnapshotLists, d \in SnapshotLists :
         last = [op |-> "diff_args",
                 fs |-> [files |-> f],
                 db |-> [updated_at |-> 0, files |-> d]]

DiffCall ==
    /\ last.op = "diff_args"
    /\ last' = [op |-> "diff", fs |-> last.fs, db |-> last.db,
                diff |-> diff(last.fs, last.db)]
    /\ UNCHANGED <<tracks, files, track_metadata, updates, lock, workers>>

NextDiff == DiffCall

SpecDiff == InitDiff /\ [][NextDiff]_vars

(***************************************************************************)
(* Properties of Storage::diff, checked under SpecDiff.                    *)
(***************************************************************************)
\* the paths a snapshot has for an identity
PathsOf(snapshot, t) ==
    {snapshot.files[i].path :
        i \in {j \in 1..Len(snapshot.files) : snapshot.files[j].track_id = t}}

\* C1: the diff contains identity t exactly when the file-system snapshot
\* and the catalog snapshot have different sets of paths for t; the new
\* locations of an entry are the file-system set minus the catalog set, the
\* deleted locations the catalog set minus the file-system set.
C1_DiffIsSetDifference ==
    last.op = "diff" =>
        \A t \in TrackIds :
            LET F == PathsOf(last.fs, t)
                D == PathsOf(last.db, t)
            IN  /\ (t \in DOMAIN last.diff) <=> (F # D)
                /\ t \in DOMAIN last.diff =>
                     /\ new_locations(last.diff[t]) = F \ D
                     /\ deleted_locations(last.diff[t]) = D \ F

\* an identity with equal sets is left out next to one deleted and one new
C1_Witness ==
    /\ last.op = "diff"
    /\ \E t, u, v \in TrackIds :
         /\ PathsOf(last.fs, t) # {}
         /\ t \notin DOMAIN last.diff
         /\ u \in DOMAIN last.diff /\ deleted_locations(last.diff[u]) # {}
         /\ v \in DOMAIN last.diff /\ new_locations(last.diff[v]) # {}

\* C2: every identity present in the diff has at least one new or one
\* deleted location.
C2_EntriesHaveAChange ==
    last.op = "diff" =>
        \A t \in DOMAIN last.diff :
            \/ new_locations(last.diff[t]) # {}
            \/ deleted_locations(last.diff[t]) # {}

\* a diff with two entries
C2_Witness ==
    /\ last.op = "diff"
    /\ Cardinality(DOMAIN last.diff) >= 2

\* C3: a pure move gives an entry with new and deleted locations, a copy
\* new locations only, a partial or full deletion deleted locations only, a
\* brand-new identity new locations only with is_new; is_new and is_deleted
\* never both hold of an entry, so each entry gets the label of its case.
C3_Classification ==
    last.op = "diff" =>
        \A t \in TrackIds :
            LET F == PathsOf(last.fs, t)
                D == PathsOf(last.db, t)
                present == t \in DOMAIN last.diff
                c == last.diff[t]
            IN  /\ (Cardinality(D) = 1 /\ Cardinality(F) = 1 /\ F # D) =>
                     /\ present
                     /\ new_locations(c) # {} /\ deleted_locations(c) # {}
                /\ (D # {} /\ D \subseteq F /\ D # F) =>
                     /\ present
                     /\ new_locations(c) # {} /\ deleted_locations(c) = {}
                /\ (F \subseteq D /\ D # F) =>
                     /\ present
                     /\ deleted_locations(c) # {} /\ new_locations(c) = {}
                /\ (D = {} /\ F # {}) =>
                     /\ present
                     /\ new_locations(c) = F /\ deleted_locations(c) = {}
                     /\ is_new(c)
                /\ present =>
                     /\ ~(is_new(c) /\ is_deleted(c))
                     /\ (StatusLabel(c) = "NEW") <=> is_new(c)
                     /\ (StatusLabel(c) = "DELETED") <=> is_deleted(c)
                     /\ (StatusLabel(c) = "MOVED / COPIED") <=>
                            (~is_new(c) /\ ~is_deleted(c))

\* one diff with a copy (labelled MOVED / COPIED) and a full deletion
C3_Witness ==
    /\ last.op = "diff"
    /\ \E t, u \in DOMAIN last.diff :
         /\ PathsOf(last.db, t) # {}
         /\ PathsOf(last.db, t) \subseteq PathsOf(last.fs, t)
         /\ StatusLabel(last.diff[t]) = "MOVED / COPIED"
         /\ PathsOf(last.fs, u) = {}
         /\ StatusLabel(last.diff[u]) = "DELETED"

(***************************************************************************)
(* Catalog (storage/schema.rs).  A table is a bag of rows, so that the     *)
(* primary keys are something the statements have to keep.                 *)
(*   tracks(track_id PK)            bag of hex strings                     *)
(*   files(track_id, path, PK both) bag of [track_id, path]                *)
(*   track_metadata(track_id PK..)  set of [track_id, title, artist]       *)
(*   updates(updated_at)            sequence of timestamps, in rowid order *)
(***************************************************************************)
Catalog ==
    [tracks |-> tracks, files |-> files,
     track_metadata |-> track_metadata, updates |-> updates]

Ok(v) == [ok |-> TRUE, value |-> v]

Err(e) == [ok |-> FALSE, err |-> e]

\* Path::to_string_lossy: every invalid byte becomes U+FFFD
to_string_lossy(path) ==
    [i \in 1..Len(path) |->
        IF path[i] = InvalidByte THEN ReplacementChar ELSE path[i]]

\* PathBuf::from(String): the same characters
PathBuf_from(str) == str

FileRow(hex, str) == [track_id |-> hex, path |-> str]

\* the rows of a table, each as often as the table holds it
Rows(table) ==
    LET S == BagToSet(table) IN
    SetToSeq(UNION {{<<r, k>> : k \in 1..CopiesIn(r, table)} : r \in S})

\* SELECT COUNT(*): the number of rows of the table that are in selected
RowCount(table, selected) ==
    LET S == BagToSet(table) \cap selected IN
    IF S = {} THEN 0
    ELSE BagCardinality([r \in S |-> CopiesIn(r, table)])

\* INSERT OR IGNORE INTO tracks (track_id) VALUES (?1)
InsertTrackRow(cat, hex) ==
    IF BagIn(hex, cat.tracks) THEN cat
    ELSE [cat EXCEPT !.tracks = @ (+) SetToBag({hex})]

\* INSERT OR IGNORE INTO files (track_id, path) VALUES (?1, ?2):
\* the number of rows inserted and the table afterwards
FileRowsInserted(cat, row) == IF BagIn(row, cat.files) THEN 0 ELSE 1

\* an INSERT that does not ignore a row that is already there
InsertFileRow_again(cat, row) ==
    [cat EXCEPT !.files = @ (+) SetToBag({row})]

\* INSERT OR IGNORE INTO files (track_id, path) VALUES (?1, ?2)
InsertFileRow(cat, row) ==
    IF BagIn(row, cat.files) THEN cat
    ELSE [cat EXCEPT !.files = @ (+) SetToBag({row})]

\* a ledger that records a time only once
InsertUpdateRow_once(cat, time_secs) ==
    IF \E i \in 1..Len(cat.updates) : cat.updates[i] = time_secs THEN cat
    ELSE [cat EXCEPT !.updates = Append(@, time_secs)]

\* INSERT INTO updates (updated_at) VALUES (?1)
InsertUpdateRow(cat, time_secs) ==
    [cat EXCEPT !.updates = Append(@, time_secs)]

\* a transaction whose statements stay when it is dropped
Rollback_keep(before, tx) == tx

\* a rusqlite Transaction that is dropped without commit rolls back
Rollback(before, tx) == before

Commit(before, tx) == tx

\* a transaction of SELECT statements that also appends to the ledger
select_only_logged(cat) ==
    [cat EXCEPT !.updates = Append(@, 1)]

\* the transaction of scan_db and of find_files: it runs SELECT statements
\* only, so what it commits is the catalog it started from
select_only(cat) == Commit(cat, cat)

\* db::system_time_to_i64 fails for a clock before the Unix epoch
ClockValues == {-1} \cup (1..MaxClock)

\* an updated_at that is the timestamp of the newest ledger row
SeqLast(s) ==
    IF s = <<>> THEN 0
    ELSE s[Len(s)]

SeqMax(s) ==
    IF s = <<>> THEN 0
    ELSE CHOOSE m \in Range(s) : \A x \in Range(s) : x <= m

\* Storage::scan_db
scan_db(cat) ==
    LET rows == Rows(cat.files)
        decoded == [i \in 1..Len(rows) |->
                      ObservedFile(from_hex(rows[i][1].track_id),
                                   PathBuf_from(rows[i][1].path))]
    IN  IF \E i \in 1..Len(decoded) : decoded[i].track_id = -1
        THEN Err("Internal")
        ELSE [ok |-> TRUE, updated_at |-> SeqMax(cat.updates),
              files |-> decoded]

\* Storage::status, given what FsSnapshot::scan and scan_db return
status(fs, db) ==
    IF ~fs.ok THEN fs
    ELSE IF ~db.ok THEN db
    ELSE [ok |-> TRUE, fs |-> fs, db |-> db, diff |-> diff(fs, db)]

\* the loop of Storage::insert_tracks after its first n statements
\* (statement 2i-1 inserts the track row of item i, statement 2i its file row)
RECURSIVE InsertLoop(_, _, _)
InsertLoop(cat, items, n) ==
    IF n = 0 THEN [cat |-> cat, files_inserted |-> 0]
    ELSE LET prev == InsertLoop(cat, items, n - 1)
             item == items[(n + 1) \div 2]
             track_id_str == to_hex(item[1])
             row == FileRow(track_id_str, to_string_lossy(item[2]))
         IN  IF n % 2 = 1
             THEN [cat |-> InsertTrackRow(prev.cat, track_id_str),
                   files_inserted |-> prev.files_inserted]
             ELSE [cat |-> InsertFileRow(prev.cat, row),
                   files_inserted |->
                       prev.files_inserted + FileRowsInserted(prev.cat, row)]

\* Storage::insert_tracks.  fail = 0: no statement fails; fail = 1: opening
\* the transaction fails; 2 .. 2n+1: that statement of the loop fails;
\* 2n+2: the insert into updates fails; 2n+3: the commit fails.
InsertSteps(items) == 2 * Len(items) + 3

insert_tracks(cat, items, now, fail) ==
    LET n == 2 * Len(items)
        loop == InsertLoop(cat, items, n)
        logged == InsertUpdateRow(loop.cat, now)
    IN  IF fail = 1 THEN [cat |-> cat, res |-> Err("Database")]
        ELSE IF fail \in 2..(n + 1)
        THEN [cat |-> Rollback(cat, InsertLoop(cat, items, fail - 2).cat),
              res |-> Err("Database")]
        ELSE IF now < 0
        THEN [cat |-> Rollback(cat, loop.cat), res |-> Err("Internal")]
        ELSE IF fail = n + 2
        THEN [cat |-> Rollback(cat, loop.cat), res |-> Err("Database")]
        ELSE IF fail = n + 3
        THEN [cat |-> Rollback(cat, logged), res |-> Err("Database")]
        ELSE [cat |-> Commit(cat, logged), res |-> Ok(loop.files_inserted)]

\* the new locations of a diff, as Storage::_update_db_with_new_files
\* collects them
new_files(diff_result) ==
    SetToSeq(UNION {{ObservedFile(t, p) : p \in new_locations(diff_result[t])}
                    : t \in DOMAIN diff_result})

\* an update that also removes the deleted locations of the diff
update_db_with_new_files_prune(cat, diff_result, now, fail) ==
    LET nf == new_files(diff_result)
        ins == insert_tracks(cat,
                   [i \in 1..Len(nf) |-> <<nf[i].track_id, nf[i].path>>],
                   now, fail)
        gone == UNION {{FileRow(to_hex(t), to_string_lossy(p)) :
                          p \in deleted_locations(diff_result[t])}
                       : t \in DOMAIN diff_result}
        keep == BagToSet(ins.cat.files) \ gone
        pruned == [ins.cat EXCEPT !.files =
                     IF keep = {} THEN EmptyBag
                     ELSE [r \in keep |-> ins.cat.files[r]]]
    IN  IF ins.res.ok
        THEN [cat |-> pruned, inserted |-> ins.res.value, res |-> Ok(nf)]
        ELSE [cat |-> ins.cat, inserted |-> 0, res |-> ins.res]

\* Storage::_update_db_with_new_files
update_db_with_new_files_inner(cat, diff_result, now, fail) ==
    LET nf == new_files(diff_result)
        ins == insert_tracks(cat,
                   [i \in 1..Len(nf) |-> <<nf[i].track_id, nf[i].path>>],
                   now, fail)
    IN  IF ins.res.ok
        THEN [cat |-> ins.cat, inserted |-> ins.res.value, res |-> Ok(nf)]
        ELSE [cat |-> ins.cat, inserted |-> 0, res |-> ins.res]

\* SQLite's LIKE: '%' matches any run of characters, '_' any one character,
\* every other character itself, ASCII letters without regard to case
RECURSIVE Like(_, _)
Like(pattern, str) ==
    IF pattern = <<>> THEN str = <<>>
    ELSE IF Head(pattern) = "%"
    THEN \E k \in 1..(Len(str) + 1) : Like(Tail(pattern), Suffix(str, k))
    ELSE IF str = <<>> THEN FALSE
    ELSE IF Head(pattern) = "_" THEN Like(Tail(pattern), Tail(str))
    ELSE /\ to_lowercase_char(Head(pattern)) = to_lowercase_char(Head(str))
         /\ Like(Tail(pattern), Tail(str))

\* a WHERE clause without the LIKE
ForgetWhere_exact(row, prefix) == row.path = prefix

\* WHERE path = ?1 OR path LIKE ?2, with ?1 = prefix and ?2 = prefix/%
ForgetWhere(row, prefix) ==
    \/ row.path = prefix
    \/ Like(prefix \o <<"/", "%">>, row.path)

\* DELETE FROM files WHERE ...
DeleteFileRows(cat, prefix) ==
    LET keep == {r \in BagToSet(cat.files) : ~ForgetWhere(r, prefix)} IN
    [cat EXCEPT !.files =
        IF keep = {} THEN EmptyBag ELSE [r \in keep |-> cat.files[r]]]

ForgetReport(removed_files, affected_tracks, removed_tracks) ==
    [removed_files |-> removed_files, affected_tracks |-> affected_tracks,
     removed_tracks |-> removed_tracks]

\* Storage::forget_path.  fail = 0: no statement fails; 1: opening the
\* transaction; 2: SELECT DISTINCT; 3: SELECT COUNT; 4: DELETE; 5: a count
\* of the remaining rows of an affected track; 6: the insert into updates;
\* 7: the commit.
forget_path(cat, path, now, fail) ==
    LET prefix == to_string_lossy(path)
        InSubtree(r) == ForgetWhere(r, prefix)
        affected_track_ids ==
            {r.track_id : r \in {q \in BagToSet(cat.files) : InSubtree(q)}}
        affected_tracks == Cardinality(affected_track_ids)
        removed_files ==
            RowCount(cat.files, {r \in BagToSet(cat.files) : InSubtree(r)})
        deleted == DeleteFileRows(cat, prefix)
        remaining(t) ==
            RowCount(deleted.files,
                     {r \in BagToSet(deleted.files) : r.track_id = t})
        removed_tracks ==
            Cardinality({t \in affected_track_ids : remaining(t) = 0})
        logged == InsertUpdateRow(deleted, now)
    IN  IF now < 0 THEN [cat |-> cat, res |-> Err("Internal")]
        ELSE IF fail = 1 THEN [cat |-> cat, res |-> Err("Database")]
        ELSE IF fail \in 2..4
        THEN [cat |-> Rollback(cat, cat), res |-> Err("Database")]
        ELSE IF fail = 5 /\ affected_track_ids # {}
        THEN [cat |-> Rollback(cat, deleted), res |-> Err("Database")]
        ELSE IF fail = 6
        THEN [cat |-> Rollback(cat, deleted), res |-> Err("Database")]
        ELSE IF fail = 7
        THEN [cat |-> Rollback(cat, logged), res |-> Err("Database")]
        ELSE [cat |-> Commit(cat, logged),
              res |-> Ok(ForgetReport(removed_files, affected_tracks,
                                      removed_tracks))]

\* SELECT path FROM files WHERE track_id = ?1
StoredPaths(cat, track_id) ==
    {PathBuf_from(r.path) :
        r \in {q \in BagToSet(cat.files) : q.track_id = to_hex(track_id)}}

\* the metadata of an identity as Option<TrackMetadata>: the empty set is
\* None, a set of one TrackMetadata is Some
StoredMetadata(cat, track_id) ==
    {[title |-> m.title, artist |-> m.artist] :
        m \in {n \in cat.track_metadata : n.track_id = to_hex(track_id)}}

\* a get_track that takes the first stored path without checking it
get_track_unchecked(cat, track_id, disk) ==
    LET paths == StoredPaths(cat, track_id)
        metadata == StoredMetadata(cat, track_id)
    IN  IF paths = {} THEN {Err("TrackNotFound")}
        ELSE {Ok(<<track_id, p, metadata>>) : p \in paths}

\* Storage::get_track: every result the call can give (the order of the
\* rows of the query is not fixed, so any valid path can be the first)
get_track(cat, track_id, disk) ==
    LET paths == StoredPaths(cat, track_id)
        metadata == StoredMetadata(cat, track_id)
        valid == {p \in paths : is_valid_music_path(disk, p)}
    IN  IF paths = {} THEN {Err("TrackNotFound")}
        ELSE IF valid = {} THEN {Err("InvalidTrackFile")}
        ELSE {Ok(<<track_id, p, metadata>>) : p \in valid}

\* Storage::list_tracks, given what its call of status returns
list_tracks(st) ==
    IF ~st.ok THEN st
    ELSE LET fs_files == Range(st.fs.files)
             db_files == Range(st.db.files)
             available(t) == {f.path : f \in {g \in fs_files : g.track_id = t}}
             db_paths(t) == {f.path : f \in {g \in db_files : g.track_id = t}}
         IN  Ok({[track_id |-> t,
                  available_files |-> available(t),
                  unavailable_files |-> db_paths(t) \ available(t)]
                 : t \in {f.track_id : f \in db_files}})

\* the normalisation of Storage::find_files: lower case, without spaces,
\* hyphens, underscores and periods
IsKept(c) == c \notin {" ", "-", "_", "."}

\* a normalisation that keeps the case of the letters
normalize_keep_case(str) == SelectSeq(str, IsKept)

normalize(str) == SelectSeq(to_lowercase(str), IsKept)

\* str::contains
contains(haystack, needle) ==
    \E i \in 1..(Len(haystack) - Len(needle) + 1) :
        SubSeq(haystack, i, i + Len(needle) - 1) = needle

\* a find_files that gives up on a matching row whose identity does not
\* decode
find_files_strict(cat, query) ==
    LET matching == {q \in BagToSet(cat.files) :
                        contains(normalize(q.path), normalize(query))}
    IN  IF \E q \in matching : from_hex(q.track_id) = -1
        THEN Err("Internal")
        ELSE Ok({<<from_hex(r.track_id), r.path>> : r \in matching})

\* Storage::find_files
find_files(cat, query) ==
    Ok({<<from_hex(r.track_id), r.path>> :
          r \in {q \in BagToSet(cat.files) :
                   /\ contains(normalize(q.path), normalize(query))
                   /\ from_hex(q.track_id) # -1}})

\* Storage::update_track_metadata: upsert of the metadata row of a track
UpsertMetadata(cat, track_id) ==
    [cat EXCEPT !.track_metadata =
        {m \in @ : m.track_id # to_hex(track_id)}
        \cup {[track_id |-> to_hex(track_id),
               title |-> "title", artist |-> "artist"]}]

(***************************************************************************)
(* The storage facade as a state machine.  The file system is not under    *)
(* the program's control: every call sees the disk as it is at that        *)
(* moment, which can be any disk.  last records the most recent call.      *)
(***************************************************************************)
SetCatalog(cat) ==
    /\ tracks' = cat.tracks
    /\ files' = cat.files
    /\ track_metadata' = cat.track_metadata
    /\ updates' = cat.updates

\* the arguments given to forget_path
ForgetArgs ==
    { <<"/", "m">>, <<"/", "m", "/", "s">>, <<"/", "M">>, <<"/", "_">>,
      <<"/", "x">>, AllPaths[1] }

\* the lists given to insert_tracks
InsertArgs == SeqsUpTo(TrackIds \X Paths, MaxBatch)

\* The clock and the failing statement of a catalog write of k statements.
\* The clock is read by the insert into updates only, so a failing
\* statement is taken at one clock value.
WriteFaults(k) ==
    {[now |-> n, fail |-> 0] : n \in ClockValues}
    \cup {[now |-> MaxClock, fail |-> f] : f \in 1..k}

\* FsSnapshot::scan reads the clock when the scan starts, insert_tracks
\* reads it again after the walk, the hashing and the inserts: the values
\* observed_at can have when insert_tracks reads now (an update that fails
\* writes no ledger row, and is taken at one value)
ObservedAt(now) == IF now < 0 THEN {now} ELSE {now - 1, now}

\* the strings of the catalog that pass is_valid_music_path on a disk
ValidOn(disk) ==
    {str \in {to_string_lossy(p) : p \in Paths} :
        is_valid_music_path(disk, PathBuf_from(str))}

\* what FsSnapshot::scan can return: its result on every disk
ScanResults == {FsSnapshot_scan(disk) : disk \in Disks}

\* one disk for every outcome of the validity check on the library's paths
ValidDisks ==
    {CHOOSE disk \in Disks : ValidOn(disk) = v
        : v \in {ValidOn(disk) : disk \in Disks}}

Init ==
    /\ tracks = EmptyBag
    /\ files = EmptyBag
    /\ track_metadata = {}
    /\ updates = <<>>
    /\ last = [op |-> "new"]
    /\ lock = FreeLock
    /\ workers = <<>>

ScanDb ==
    \E db \in {scan_db(Catalog)} :
        /\ last' = [op |-> "scan_db", ok |-> db.ok]
        /\ SetCatalog(select_only(Catalog))
        /\ UNCHANGED <<lock, workers>>

\* scan_db is called only after the scan of the file system has succeeded
Status ==
    \E db \in {scan_db(Catalog)}, fs \in ScanResults :
      \E st \in {status(fs, db)} :
        /\ last' = [op |-> "status", ok |-> st.ok]
        /\ SetCatalog(IF fs.ok THEN select_only(Catalog) ELSE Catalog)
        /\ UNCHANGED <<lock, workers>>

UpdateDbWithNewFiles ==
    /\ Len(updates) < MaxLedger
    /\ \E db \in {scan_db(Catalog)}, fs \in ScanResults :
        \E st \in {status(fs, db)} :
          IF ~st.ok
          THEN /\ last' = [op |-> "update_db_with_new_files", res |-> st]
               /\ UNCHANGED <<tracks, files, track_metadata, updates, lock, workers>>
          ELSE \E w \in WriteFaults(InsertSteps(new_files(st.diff))) :
                 \E r \in {update_db_with_new_files_inner(Catalog, st.diff,
                                                          w.now, w.fail)} :
                  \E observed_at \in IF r.res.ok THEN ObservedAt(w.now)
                                      ELSE {w.now} :
                   /\ SetCatalog(r.cat)
                   /\ last' = [op |-> "update_db_with_new_files",
                               fs |-> Range(st.fs.files),
                               observed_at |-> observed_at,
                               inserted |-> r.inserted, res |-> r.res]
                   /\ UNCHANGED <<lock, workers>>

InsertTracks ==
    /\ Len(updates) < MaxLedger
    /\ \E items \in InsertArgs :
         \E w \in WriteFaults(InsertSteps(items)) :
           \E r \in {insert_tracks(Catalog, items, w.now, w.fail)} :
               /\ SetCatalog(r.cat)
               /\ last' = [op |-> "insert_tracks", res |-> r.res]
               /\ UNCHANGED <<lock, workers>>

ForgetPath ==
    /\ Len(updates) < MaxLedger
    /\ \E path \in ForgetArgs, w \in WriteFaults(7) :
           \E r \in {forget_path(Catalog, path, w.now, w.fail)} :
               /\ SetCatalog(r.cat)
               /\ last' = [op |-> "forget_path", path |-> path,
                           res |-> r.res]
               /\ UNCHANGED <<lock, workers>>

GetTrack ==
    \E track_id \in TrackIds, disk \in ValidDisks :
      \E r \in get_track(Catalog, track_id, disk) :
        /\ last' = [op |-> "get_track", track_id |-> track_id,
                    valid |-> ValidOn(disk), res |-> r]
        /\ UNCHANGED <<tracks, files, track_metadata, updates, lock, workers>>

ListTracks ==
    \E db \in {scan_db(Catalog)}, fs \in ScanResults :
      \E r \in {list_tracks(status(fs, db))} :
        /\ last' = [op |-> "list_tracks", ok |-> r.ok]
        /\ SetCatalog(IF fs.ok THEN select_only(Catalog) ELSE Catalog)
        /\ UNCHANGED <<lock, workers>>

\* the queries given to find_files
FindArgs == { <<"A", ".", "m">>, <<"s", " ", "-">>, <<"x">> }

FindFiles ==
    \E query \in FindArgs :
      \E r \in {find_files(Catalog, query)} :
        /\ last' = [op |-> "find_files", query |-> query, res |-> r]
        /\ SetCatalog(select_only(Catalog))
        /\ UNCHANGED <<lock, workers>>

UpdateTrackMetadata ==
    \E track_id \in TrackIds :
        /\ BagIn(to_hex(track_id), tracks)
        /\ SetCatalog(UpsertMetadata(Catalog, track_id))
        /\ last' = [op |-> "update_track_metadata", track_id |-> track_id]
        /\ UNCHANGED <<lock, workers>>

Next ==
    \/ ScanDb
    \/ Status
    \/ UpdateDbWithNewFiles
    \/ InsertTracks
    \/ ForgetPath
    \/ GetTrack
    \/ ListTracks
    \/ FindFiles
    \/ UpdateTrackMetadata

Spec == Init /\ [][Next]_vars

(***************************************************************************)
(* Properties of the storage facade, checked under Spec.                   *)
(***************************************************************************)
Writes == {"insert_tracks", "update_db_with_new_files", "forget_path"}

\* the catalog holds the pair of an identity and a path
Stored(table, track_id, path) ==
    \E r \in BagToSet(table) :
        from_hex(r.track_id) = track_id /\ PathBuf_from(r.path) = path

\* path is subtree, or subtree followed by '/' and anything
UnderSubtree(path, subtree) ==
    \/ path = subtree
    \/ /\ Len(path) > Len(subtree)
       /\ SubSeq(path, 1, Len(subtree) + 1) = subtree \o <<"/">>

\* C4: after update_db_with_new_files succeeds, the files table contains
\* every (identity, path) pair of the file-system snapshot the call scanned,
\* each such identity has a tracks row, and the returned list is exactly the
\* scanned pairs that were not in the catalog before the call, each once.
C4_UpdateIngestsSnapshot ==
    [][(last'.op = "update_db_with_new_files" /\ last'.res.ok) =>
         /\ \A f \in last'.fs : Stored(files', f.track_id, f.path)
         /\ \A f \in last'.fs : BagIn(to_hex(f.track_id), tracks')
         /\ Range(last'.res.value) =
                {f \in last'.fs : ~Stored(files, f.track_id, f.path)}
         /\ Len(last'.res.value) = Cardinality(Range(last'.res.value))]_vars

\* C5: over any sequence of calls, a files row that was once in the catalog
\* is still in it, unless a forget_path removed it.
C5_RowsLeaveOnlyByForget ==
    [][\/ \A r \in BagToSet(files) : BagIn(r, files')
       \/ last'.op = "forget_path"]_vars

\* an update has run on a file system where a catalogued path has no file
\* any more, and the row is still there
C5_Witness ==
    /\ last.op = "update_db_with_new_files"
    /\ last.res.ok
    /\ \E r \in BagToSet(files) :
         \A f \in last.fs : to_string_lossy(f.path) # r.path

\* C6: committing the same pairs twice leaves each pair once in files and
\* each identity once in tracks, the second commit inserts no file row, and
\* re-running update_db_with_new_files on an unchanged file system returns
\* an empty list.
C6_IngestIdempotent ==
    /\ \A items \in InsertArgs, now \in 1..MaxClock :
         LET first == insert_tracks(Catalog, items, now, 0)
             second == insert_tracks(first.cat, items, now, 0)
         IN  /\ second.res.ok /\ second.res.value = 0
             /\ \A i \in 1..Len(items) :
                  /\ Cardinality({r \in BagToSet(second.cat.files) :
                         /\ from_hex(r.track_id) = items[i][1]
                         /\ PathBuf_from(r.path) = items[i][2]}) = 1
                  /\ \A r \in BagToSet(second.cat.files) :
                         CopiesIn(r, second.cat.files) = 1
                  /\ CopiesIn(to_hex(items[i][1]), second.cat.tracks) = 1
    /\ (last.op = "update_db_with_new_files" /\ last.res.ok) =>
         new_files(diff([files |-> SetToSeq(last.fs)], scan_db(Catalog)))
             = <<>>

\* C7: a catalog write that fails leaves the tracks, files, track_metadata
\* and updates tables exactly as they were before the call.
C7_WritesAllOrNothing ==
    [][(last'.op \in Writes /\ ~last'.res.ok) =>
         UNCHANGED <<tracks, files, track_metadata, updates>>]_vars

\* a write has failed in its transaction on a catalog with rows in every
\* table
C7_Witness ==
    /\ last.op \in Writes
    /\ ~last.res.ok /\ last.res.err = "Database"
    /\ files # EmptyBag /\ tracks # EmptyBag
    /\ track_metadata # {} /\ updates # <<>>

\* C8: get_track fails with TrackNotFound exactly when no path is stored
\* for the identity, with InvalidTrackFile exactly when paths are stored and
\* none passes the check; otherwise it returns the identity, a stored path
\* that passes the check, and the metadata row if there is one.
C8_GetTrackOutcome ==
    last.op = "get_track" =>
        LET id == last.track_id
            stored == {r.path : r \in {q \in BagToSet(files) :
                                          q.track_id = to_hex(id)}}
            passing == stored \cap last.valid
            meta == {m \in track_metadata : m.track_id = to_hex(id)}
        IN  /\ (~last.res.ok /\ last.res.err = "TrackNotFound")
                  <=> stored = {}
            /\ (~last.res.ok /\ last.res.err = "InvalidTrackFile")
                  <=> (stored # {} /\ passing = {})
            /\ (stored # {} /\ passing # {}) =>
                  /\ last.res.ok
                  /\ last.res.value[1] = id
                  /\ last.res.value[2] \in {PathBuf_from(x) : x \in passing}
                  /\ meta = {} => last.res.value[3] = {}
                  /\ meta # {} =>
                       last.res.value[3] =
                           {[title |-> m.title, artist |-> m.artist]
                               : m \in meta}

\* a lookup has succeeded for an identity that also has a stored path which
\* does not pass the check, and has returned its metadata
C8_Witness ==
    /\ last.op = "get_track"
    /\ last.res.ok
    /\ last.res.value[3] # {}
    /\ \E r \in BagToSet(files) :
         r.track_id = to_hex(last.track_id) /\ r.path \notin last.valid

\* C9: after forget_path(subtree), no stored location whose path is subtree
\* or nested under it remains, whatever its identity.
C9_ForgetRemovesSubtree ==
    (last.op = "forget_path" /\ last.res.ok) =>
        \A r \in BagToSet(files) :
            ~UnderSubtree(PathBuf_from(r.path), last.path)

\* one call has removed locations of two identities
C9_Witness ==
    /\ last.op = "forget_path"
    /\ last.res.ok
    /\ last.res.value.removed_files >= 2
    /\ last.res.value.affected_tracks >= 2

\* C10: removed_files is the number of file rows the call deleted,
\* affected_tracks the number of identities that lost a location,
\* removed_tracks the number of those left with no location; so
\* removed_tracks <= affected_tracks <= removed_files, and all three are 0
\* when nothing is stored under the subtree.
C10_ForgetReportExact ==
    [][(last'.op = "forget_path" /\ last'.res.ok) =>
         LET report == last'.res.value
             gone == {r \in BagToSet(files) : ~BagIn(r, files')}
             ids == {r.track_id : r \in gone}
             left(t) == \E r \in BagToSet(files') : r.track_id = t
         IN  /\ report.removed_files = Cardinality(gone)
             /\ report.affected_tracks = Cardinality(ids)
             /\ report.removed_tracks =
                    Cardinality({t \in ids : ~left(t)})
             /\ report.removed_tracks <= report.affected_tracks
             /\ report.affected_tracks <= report.removed_files
             /\ (\A r \in BagToSet(files) :
                    ~UnderSubtree(PathBuf_from(r.path), last'.path)) =>
                  /\ report.removed_files = 0
                  /\ report.affected_tracks = 0
                  /\ report.removed_tracks = 0]_vars

\* an identity has at least one files row
HasLocation(table, hex) == \E r \in BagToSet(table) : r.track_id = hex

\* C11: after forget_path commits, an identity left with zero files rows
\* has no tracks row and no track_metadata row; so every tracks row and
\* every track_metadata row belongs to an identity with a files row.
C11_ForgetCascades ==
    /\ (last.op = "forget_path" /\ last.res.ok) =>
          \A id \in TrackIds :
              ~HasLocation(files, to_hex(id)) =>
                  /\ ~BagIn(to_hex(id), tracks)
                  /\ \A m \in track_metadata : m.track_id # to_hex(id)
    /\ \A hex \in BagToSet(tracks) : HasLocation(files, hex)
    /\ \A m \in track_metadata : HasLocation(files, m.track_id)

\* the disks whose scan gives exactly the files of a snapshot
DisksOf(snapshot) ==
    {disk \in Disks :
        /\ FsSnapshot_scan(disk).ok
        /\ Range(FsSnapshot_scan(disk).files) = snapshot}

\* the catalog after the step
CatalogNext ==
    [tracks |-> tracks', files |-> files',
     track_metadata |-> track_metadata', updates |-> updates']

\* C12: a track identity goes Unknown -> Tracked(available) ->
\* Tracked(stale) -> Unknown.  An identity without a location answers
\* TrackNotFound; it gets its first location only by an ingest; after
\* update has ingested its location from a disk, get_track resolves on
\* that disk; an identity whose stored files are gone from the disk stays
\* in the catalog after update, get_track answers InvalidTrackFile and
\* list_tracks lists it with its paths unavailable; and it has no location
\* any more only after a forget_path.
C12_Lifecycle ==
    [][/\ \A id \in TrackIds :
            /\ (~HasLocation(files, to_hex(id))
                  /\ HasLocation(files', to_hex(id)))
                => last'.op \in {"update_db_with_new_files", "insert_tracks"}
            /\ (HasLocation(files, to_hex(id))
                  /\ ~HasLocation(files', to_hex(id)))
                => (last'.op = "forget_path" /\ last'.res.ok)
       /\ last'.op = "get_track" =>
            ((~last'.res.ok /\ last'.res.err = "TrackNotFound")
                <=> ~HasLocation(files', to_hex(last'.track_id)))
       /\ (last'.op = "update_db_with_new_files" /\ last'.res.ok) =>
            \A disk \in DisksOf(last'.fs) :
              /\ \A f \in last'.fs :
                   \A r \in get_track(CatalogNext, f.track_id, disk) : r.ok
              /\ \A id \in TrackIds :
                   (/\ HasLocation(files', to_hex(id))
                    /\ \A p \in StoredPaths(CatalogNext, id) :
                          p \notin DOMAIN disk \/ disk[p].kind = "absent") =>
                     /\ get_track(CatalogNext, id, disk)
                            = {Err("InvalidTrackFile")}
                     /\ \E e \in list_tracks(
                                   status(FsSnapshot_scan(disk),
                                          scan_db(CatalogNext))).value :
                          /\ e.track_id = id
                          /\ e.available_files = {}
                          /\ e.unavailable_files
                                = StoredPaths(CatalogNext, id)]_vars

\* C20: list_tracks returns one entry per identity with a stored location;
\* in each entry available_files and unavailable_files are disjoint,
\* together are the identity's stored paths, and available_files are the
\* stored paths that the scan found for the identity.
C20_ListTracksPartition ==
    \A fs \in ScanResults :
        LET res == list_tracks(status(fs, scan_db(Catalog))) IN
        res.ok =>
          /\ {e.track_id : e \in res.value}
                = {id \in TrackIds : HasLocation(files, to_hex(id))}
          /\ \A e, g \in res.value : e.track_id = g.track_id => e = g
          /\ \A e \in res.value :
               LET stored == StoredPaths(Catalog, e.track_id)
                   found == {f.path : f \in {g \in Range(fs.files) :
                                               g.track_id = e.track_id}}
               IN  /\ e.available_files \cap e.unavailable_files = {}
                   /\ e.available_files \cup e.unavailable_files = stored
                   /\ e.available_files = stored \cap found

(***************************************************************************)
(* HTTP layer (http/server.rs, http/error.rs).                             *)
(*                                                                         *)
(* Header values and texts are sequences of characters, like paths.  An    *)
(* Option is a set with at most one element.                               *)
(***************************************************************************)
Digits == <<"0", "1", "2", "3", "4", "5", "6", "7", "8", "9">>

DigitValue(c) ==
    IF \E i \in 1..10 : Digits[i] = c
    THEN (CHOOSE i \in 1..10 : Digits[i] = c) - 1
    ELSE -1

\* the largest value of the integers the model works with; it stands for
\* u64::MAX, which is only ever compared with file sizes
U64_MAX == 2147483647

\* the value of a string of decimal digits, -1 when it exceeds U64_MAX
RECURSIVE DecimalValue(_)
DecimalValue(s) ==
    IF s = <<>> THEN 0
    ELSE LET v == DecimalValue(SubSeq(s, 1, Len(s) - 1))
             d == DigitValue(s[Len(s)])
         IN  IF v = -1 \/ v > (U64_MAX - d) \div 10 THEN -1
             ELSE v * 10 + d

\* str::parse::<u64>: decimal digits after an optional '+'; Err is -1
parse_u64(s) ==
    LET body == IF s # <<>> /\ s[1] = "+" THEN Tail(s) ELSE s IN
    IF body = <<>> \/ \E i \in 1..Len(body) : DigitValue(body[i]) = -1
    THEN -1
    ELSE DecimalValue(body)

\* u64's Display
RECURSIVE u64_to_string(_)
u64_to_string(n) ==
    IF n < 10 THEN <<Digits[n + 1]>>
    ELSE u64_to_string(n \div 10) \o <<Digits[(n % 10) + 1]>>

\* str::starts_with
starts_with(s, prefix) ==
    Len(s) >= Len(prefix) /\ SubSeq(s, 1, Len(prefix)) = prefix

\* str::split on one character
RECURSIVE split(_, _)
split(s, sep) ==
    LET at == {i \in 1..Len(s) : s[i] = sep} IN
    IF at = {} THEN <<s>>
    ELSE LET i == CHOOSE k \in at : \A j \in at : k <= j
         IN  <<SubSeq(s, 1, i - 1)>> \o split(Suffix(s, i + 1), sep)

\* a panic of the handler
Panic == [ok |-> FALSE, err |-> "panic"]

\* file_size - 1 on u64: at 0 the subtraction overflows, which panics in a
\* build with overflow checks and wraps to u64::MAX in one without;
\* the panic is modelled by -1
file_size_minus_one(file_size) ==
    IF file_size = 0 THEN {-1, U64_MAX} ELSE {file_size - 1}

BytesUnit == <<"b", "y", "t", "e", "s", "=">>

\* HttpServer::parse_http_range: every outcome the call can have
parse_http_range(range, file_size) ==
    IF ~starts_with(range, BytesUnit) THEN {Ok({})}
    ELSE LET parts == split(Suffix(range, 7), "-") IN
         IF Len(parts) # 2 THEN {Ok({})}
         ELSE LET parsed_start == parse_u64(parts[1])
                  start == IF parsed_start = -1 THEN 0 ELSE parsed_start
                  parsed_end == parse_u64(parts[2])
              IN  {IF last_byte = -1 THEN Panic
                   ELSE LET end == IF parts[2] # <<>> /\ parsed_end # -1
                                   THEN parsed_end
                                   ELSE last_byte
                        IN  IF start > end \/ end >= file_size
                            THEN Err("InvalidRange")
                            ELSE Ok({<<start, end>>})
                   : last_byte \in file_size_minus_one(file_size)}

\* ApiError, with the message of its variant
ApiError(kind, msg) == [kind |-> kind, msg |-> msg]

InvalidRange == ApiError("InvalidRange", <<>>)

\* a status table that has no status of its own for an invalid range
status_code_bad_request(e) ==
    CASE e.kind = "NotFound" -> 404
      [] e.kind = "BadRequest" -> 400
      [] e.kind = "Internal" -> 500
      [] e.kind = "InvalidRange" -> 400

\* ApiError::status_code
status_code(e) ==
    CASE e.kind = "NotFound" -> 404
      [] e.kind = "BadRequest" -> 400
      [] e.kind = "Internal" -> 500
      [] e.kind = "InvalidRange" -> 416

\* impl From<StorageError> for ApiError; track_id is the identity that
\* TrackNotFound and InvalidTrackFile carry
ApiError_from(err, track_id) ==
    CASE err = "TrackNotFound" ->
            ApiError("NotFound",
                     <<"track ">> \o to_hex(track_id) \o <<" not found">>)
      [] err = "InvalidTrackFile" ->
            ApiError("BadRequest",
                     <<"track ">> \o to_hex(track_id)
                        \o <<" has no valid files">>)
      [] err = "InvalidTrackId" ->
            ApiError("BadRequest", <<"invalid track id">>)
      [] err \in {"Database", "Fs", "Internal"} ->
            ApiError("Internal", <<"internal server error">>)

\* impl Display for ApiError
ApiError_to_string(e) ==
    IF e.kind = "InvalidRange" THEN <<"invalid byte range">> ELSE e.msg

\* rouille's Response: status, Content-Type, the other headers as pairs of
\* name and value, and the body
Response(status_code_, content_type, headers, data) ==
    [status_code |-> status_code_, content_type |-> content_type,
     headers |-> headers, data |-> data]

\* ApiError::into_response
into_response(e) ==
    Response(status_code(e), "text/plain", {}, ApiError_to_string(e))

\* what rouille answers when the handler panics
PanicResponse ==
    Response(500, "text/html", {}, <<"<h1>Internal Server Error</h1>">>)

\* Response::empty_404
empty_404 == Response(404, "none", {}, <<>>)

\* HttpServer::mime_from_ext, None is the empty set
mime_from_ext(ext) ==
    CASE ext = <<"m", "4", "a">> -> {"audio/x-m4a"}
      [] ext = <<"a", "a", "c">> -> {"audio/aac"}
      [] ext = <<"m", "p", "3">> -> {"audio/mpeg"}
      [] ext = <<"w", "a", "v">> -> {"audio/wav"}
      [] ext = <<"o", "g", "g">> -> {"audio/ogg"}
      [] ext = <<"f", "l", "a", "c">> -> {"audio/flac"}
      [] OTHER -> {}

\* HttpServer::mime_for_track; the guess of the mime_guess library for an
\* extension that is not in the table is not modelled beyond its default
mime_for_track(path) ==
    LET known == IF HasExtension(path)
                 THEN mime_from_ext(to_lowercase(extension(path)))
                 ELSE {}
    IN  IF known # {} THEN CHOOSE m \in known : TRUE
        ELSE "application/octet-stream"

AcceptRanges == <<"Accept-Ranges", <<"b", "y", "t", "e", "s">>>>

\* the closure with_extra_headers of get_track_stream
with_extra_headers(resp, meta) ==
    [resp EXCEPT !.headers =
        @ \cup {AcceptRanges}
          \cup UNION {{<<"X-Track-Artist", <<m.artist>>>>,
                       <<"X-Track-Title", <<m.title>>>>} : m \in meta}]

\* the value of the Content-Range header
content_range(start, end, file_size) ==
    <<"b", "y", "t", "e", "s", " ">> \o u64_to_string(start) \o <<"-">>
        \o u64_to_string(end) \o <<"/">> \o u64_to_string(file_size)

\* the 206 response of get_track_stream
partial_content(mime, buffer, meta, start, end, file_size) ==
    with_extra_headers(
        Response(206, mime,
                 {<<"Content-Range", content_range(start, end, file_size)>>},
                 buffer),
        meta)

\* the 200 response of get_track_stream
full_file(mime, bytes, meta) ==
    with_extra_headers(Response(200, mime, {}, bytes), meta)

\* a read that starts at the beginning of the file whatever the offset
read_from_beginning(bytes, start, end) == SubSeq(bytes, 1, end - start + 1)

\* seek to start and read_exact of end - start + 1 bytes
seek_and_read_exact(bytes, start, end) == SubSeq(bytes, start + 1, end + 1)

\* Response::json of TrackResponse::from_domain
track_json(track_id, path, meta) ==
    Response(200, "application/json", {},
             <<"track_id:">> \o to_hex(track_id) \o <<"path:">> \o path
                \o <<"metadata:">>
                \o (IF meta = {} THEN <<"null">>
                    ELSE LET m == CHOOSE n \in meta : TRUE
                         IN  <<m.artist, m.title>>))

\* the pages html/offer_yt.html and html/no_track.html, by their
\* placeholders and the text around them
OFFER_YT_HTML ==
    <<"<a href=", "{{YT_URL}}", ">", "{{STATUS}}", ": ", "{{REASON}}">>

NO_TRACK_HTML == <<"no youtube link", "{{STATUS}}", ": ", "{{REASON}}">>

STREAM_HTML == <<"player">>

\* str::replace of a placeholder
RECURSIVE replace(_, _, _)
replace(template, from, to) ==
    IF template = <<>> THEN <<>>
    ELSE (IF Head(template) = from THEN to ELSE <<Head(template)>>)
            \o replace(Tail(template), from, to)

\* the link of the fallback page
youtube_url(yid) == <<"https://youtu.be/">> \o yid

\* HttpServer::render_fallback; youtube_id is an Option
render_fallback(youtube_id, status_, reason) ==
    IF youtube_id # {}
    THEN LET yid == CHOOSE y \in youtube_id : TRUE IN
         Response(200, "text/html", {},
                  replace(replace(replace(OFFER_YT_HTML, "{{YT_URL}}",
                                          youtube_url(yid)),
                                  "{{STATUS}}", u64_to_string(status_)),
                          "{{REASON}}", reason))
    ELSE Response(200, "text/html", {},
                  replace(replace(NO_TRACK_HTML,
                                  "{{STATUS}}", u64_to_string(status_)),
                          "{{REASON}}", reason))

(***************************************************************************)
(* The HTTP server as a state machine.  rouille runs handle_request on a   *)
(* pool of worker threads that share the Storage behind one Mutex.  The    *)
(* catalog does not change while the server runs (get_track only reads).   *)
(* A worker is at one of the positions                                     *)
(*   idle       no request yet                                             *)
(*   lock       before Mutex::lock                                         *)
(*   get_track  in Storage::get_track                                      *)
(*   open       before File::open of the path that get_track returned      *)
(*   read       before the seek and read_exact of a range                  *)
(*   done       handle_request has returned the response                   *)
(***************************************************************************)
MaxFileSize == 3

\* the bytes of a file of n bytes: the byte at offset k is named by k
FileBytes(n) == [i \in 1..n |-> Digits[((i - 1) % 10) + 1]]

\* what File::open and metadata give for the path at the time of the call
OpenResults == {Err("Fs")} \cup {Ok(FileBytes(n)) : n \in 0..MaxFileSize}

EmptyCatalog ==
    [tracks |-> EmptyBag, files |-> EmptyBag,
     track_metadata |-> {}, updates |-> <<>>]

\* the catalog after update_db_with_new_files on a new database
Ingested(fs) ==
    update_db_with_new_files_inner(
        EmptyCatalog, status(fs, scan_db(EmptyCatalog)).diff, 1, 0).cat

\* the catalogs the server is started on: a scanned library, with or
\* without metadata for its tracks
ServedCatalogs ==
    LET scanned == {Ingested(fs) : fs \in {r \in ScanResults : r.ok}} IN
    scanned \cup UNION {{UpsertMetadata(cat, t) :
                            t \in {i \in TrackIds :
                                     BagIn(to_hex(i), cat.tracks)}}
                         : cat \in scanned}

Request(route, id, range, y) ==
    [route |-> route, id |-> id, range |-> range, y |-> y]

\* the identities of the requests: the two of the model and one that is
\* not hexadecimal
RequestIds == {to_hex(t) : t \in TrackIds} \cup {<<"z", "z">>}

\* a number above U64_MAX
TooManyDigits == [i \in 1..10 |-> "9"]

\* the values of the Range header of the requests
RangeHeaders ==
    { BytesUnit \o <<"1", "-", "2">>,
      BytesUnit \o <<"1", "-">>,
      BytesUnit \o <<"0", "-">> \o TooManyDigits,
      BytesUnit \o <<"2", "-", "1">>,
      BytesUnit \o <<"0", "-", "9">>,
      BytesUnit \o <<"x", "-", "1">>,
      BytesUnit \o <<"0", "-", "x">>,
      BytesUnit \o <<"-", "1">>,
      <<"i", "t", "e", "m", "s", "=", "0", "-", "1">>,
      BytesUnit \o <<"0", "-", "0", ",", "1", "-", "1">> }

RangeOptions == {{}} \cup {{r} : r \in RangeHeaders}

YoutubeOptions == {{}, {<<"y", "t", "1">>}}

Requests ==
    {Request("track", {h}, {}, {}) : h \in RequestIds}
    \cup {Request("stream", {h}, r, {}) : h \in RequestIds, r \in RangeOptions}
    \cup {Request("play", {h}, r, y) :
            h \in RequestIds, r \in RangeOptions, y \in YoutubeOptions}
    \cup {Request("play", {}, {}, y) : y \in YoutubeOptions}
    \cup {Request("listen", {to_hex(2)}, {}, {}),
          Request("other", {}, {}, {})}

\* the requests of the runs with two workers
ConcurrentRequests ==
    {Request("track", {to_hex(2)}, {}, {}),
     Request("stream", {to_hex(2)}, {}, {}),
     Request("stream", {to_hex(2)}, {BytesUnit \o <<"1", "-", "2">>}, {}),
     Request("stream", {to_hex(2)}, {BytesUnit \o <<"1", "-">>}, {}),
     Request("play", {to_hex(2)}, {BytesUnit \o <<"1", "-">>}, {}),
     Request("play", {to_hex(2)}, {}, {<<"y", "t", "1">>})}

Idle ==
    [pc |-> "idle", request |-> {}, track_id |-> 0, found |-> {},
     file |-> {}, range |-> {}, err |-> "none", response |-> {}]

\* the worker after handle_request has returned
Done(req, err, resp) ==
    [pc |-> "done", request |-> {req}, track_id |-> 0, found |-> {},
     file |-> {}, range |-> {}, err |-> err, response |-> {resp}]

\* the response of a request that failed with err: a panic is answered by
\* rouille, an error by handle_get_track and handle_get_track_stream with
\* into_response and by handle_play with render_fallback
error_response(req, err, track_id) ==
    IF err = "panic" THEN PanicResponse
    ELSE LET e == IF err = "InvalidRange" THEN InvalidRange
                  ELSE ApiError_from(err, track_id)
         IN  IF req.route = "play"
             THEN render_fallback(req.y, status_code(e), ApiError_to_string(e))
             ELSE into_response(e)

Failed(req, err, track_id) == Done(req, err, error_response(req, err, track_id))

\* a handle_play that puts its own page around a response it got
success_response_page(req, resp) ==
    IF req.route = "play"
    THEN Response(200, "text/html", {}, resp.data)
    ELSE resp

\* the response of a request for which get_track_stream returned Ok(resp):
\* handle_get_track_stream and handle_play both return it as it is
success_response(req, resp) == resp

Succeeded(req, resp) == Done(req, "none", success_response(req, resp))

\* a lock that is given to whoever asks
can_lock_always(l) == TRUE

\* Mutex::lock returns when no thread holds the guard
can_lock(l) == l.held_by = {}

\* the guard of worker is dropped
unlock(l, worker) == [l EXCEPT !.held_by = @ \ {worker}]

\* the guard of worker is dropped while the thread panics
unlock_poisoned(l, worker) ==
    [held_by |-> l.held_by \ {worker}, poisoned |-> TRUE]

InitHttp(n) ==
    /\ \E cat \in ServedCatalogs :
         /\ tracks = cat.tracks
         /\ files = cat.files
         /\ track_metadata = cat.track_metadata
         /\ updates = cat.updates
    /\ last = [op |-> "run"]
    /\ lock = FreeLock
    /\ workers = [i \in 1..n |-> Idle]

\* handle_request up to the call of Mutex::lock
Receive(worker, requests) ==
    /\ workers[worker].pc \in {"idle", "done"}
    /\ \E req \in requests :
         workers' = [workers EXCEPT ![worker] =
            IF req.route = "other" THEN Done(req, "none", empty_404)
            ELSE IF req.route = "listen"
            THEN Done(req, "none", Response(200, "text/html", {}, STREAM_HTML))
            ELSE IF req.id = {}
            THEN Done(req, "none",
                      Response(400, "text/plain", {},
                               <<"Error: missing media hash">>))
            ELSE LET track_id == from_hex(CHOOSE h \in req.id : TRUE) IN
                 IF track_id = -1 THEN Failed(req, "InvalidTrackId", 0)
                 ELSE [Idle EXCEPT !.pc = "lock", !.request = {req},
                                   !.track_id = track_id]]
    /\ UNCHANGED <<tracks, files, track_metadata, updates, last, lock>>

\* Mutex::lock: handle_get_track unwraps a poisoned lock, get_track_stream
\* turns it into an internal error
Lock(worker) ==
    /\ workers[worker].pc = "lock"
    /\ can_lock(lock)
    /\ LET me == workers[worker]
           req == CHOOSE r \in me.request : TRUE
       IN  IF lock.poisoned
           THEN /\ workers' = [workers EXCEPT ![worker] =
                       Failed(req, IF req.route = "track" THEN "panic"
                                   ELSE "Internal", me.track_id)]
                /\ UNCHANGED lock
           ELSE /\ workers' = [workers EXCEPT ![worker].pc = "get_track"]
                /\ lock' = [lock EXCEPT !.held_by = @ \cup {worker}]
    /\ UNCHANGED <<tracks, files, track_metadata, updates, last>>

\* Storage::get_track under the lock, on the disk as it is at that moment;
\* its queries can fail
CallGetTrack(worker) ==
    /\ workers[worker].pc = "get_track"
    /\ LET me == workers[worker]
           req == CHOOSE r \in me.request : TRUE
       IN  \E disk \in ValidDisks :
             \E r \in get_track(Catalog, me.track_id, disk)
                        \cup {Err("Database")} :
               IF req.route = "track"
               THEN /\ workers' = [workers EXCEPT ![worker] =
                          IF r.ok
                          THEN Done(req, "none",
                                    track_json(r.value[1], r.value[2],
                                               r.value[3]))
                          ELSE Failed(req, r.err, me.track_id)]
                    /\ lock' = unlock(lock, worker)
               ELSE IF r.ok
               THEN /\ workers' = [workers EXCEPT ![worker] =
                          [me EXCEPT !.pc = "open",
                                     !.found = {<<r.value[2], r.value[3]>>}]]
                    /\ UNCHANGED lock
               ELSE /\ workers' = [workers EXCEPT ![worker] =
                          Failed(req, r.err, me.track_id)]
                    /\ lock' = unlock(lock, worker)
    /\ UNCHANGED <<tracks, files, track_metadata, updates, last>>

\* get_track_stream from File::open to the check of the Range header
OpenFile(worker) ==
    /\ workers[worker].pc = "open"
    /\ LET me == workers[worker]
           req == CHOOSE r \in me.request : TRUE
           found == CHOOSE f \in me.found : TRUE
           mime == mime_for_track(found[1])
       IN  \E opened \in OpenResults :
             IF ~opened.ok
             THEN /\ workers' = [workers EXCEPT ![worker] =
                        Failed(req, "Fs", me.track_id)]
                  /\ lock' = unlock(lock, worker)
             ELSE \E parsed \in
                       IF req.range = {} THEN {Ok({})}
                       ELSE parse_http_range(CHOOSE h \in req.range : TRUE,
                                             Len(opened.value)) :
                    IF ~parsed.ok
                    THEN /\ workers' = [workers EXCEPT ![worker] =
                               [Failed(req, parsed.err, me.track_id)
                                  EXCEPT !.file = {opened.value}]]
                         /\ lock' = IF parsed = Panic
                                    THEN unlock_poisoned(lock, worker)
                                    ELSE unlock(lock, worker)
                    ELSE IF parsed.value = {}
                    THEN /\ workers' = [workers EXCEPT ![worker] =
                               [Succeeded(req,
                                     full_file(mime, opened.value, found[2]))
                                  EXCEPT !.file = {opened.value}]]
                         /\ lock' = unlock(lock, worker)
                    ELSE /\ workers' = [workers EXCEPT ![worker] =
                               [me EXCEPT !.pc = "read",
                                          !.file = {opened.value},
                                          !.range = parsed.value]]
                         /\ UNCHANGED lock
    /\ UNCHANGED <<tracks, files, track_metadata, updates, last>>

\* get_track_stream from the seek to its return of the 206 response
ReadRange(worker) ==
    /\ workers[worker].pc = "read"
    /\ LET me == workers[worker]
           req == CHOOSE r \in me.request : TRUE
           found == CHOOSE f \in me.found : TRUE
           bytes == CHOOSE b \in me.file : TRUE
           range == CHOOSE r \in me.range : TRUE
       IN  \E io_ok \in BOOLEAN :
             workers' = [workers EXCEPT ![worker] =
                IF io_ok
                THEN [Succeeded(req,
                           partial_content(
                               mime_for_track(found[1]),
                               seek_and_read_exact(bytes, range[1], range[2]),
                               found[2], range[1], range[2], Len(bytes)))
                        EXCEPT !.file = {bytes}, !.range = {range}]
                ELSE Failed(req, "Fs", me.track_id)]
    /\ lock' = unlock(lock, worker)
    /\ UNCHANGED <<tracks, files, track_metadata, updates, last>>

\* one worker serving every request of the model
NextHttp ==
    \/ \E worker \in DOMAIN workers : Receive(worker, Requests)
    \/ \E worker \in DOMAIN workers : Lock(worker)
    \/ \E worker \in DOMAIN workers : CallGetTrack(worker)
    \/ \E worker \in DOMAIN workers : OpenFile(worker)
    \/ \E worker \in DOMAIN workers : ReadRange(worker)

InitOneWorker == InitHttp(1)

SpecHttp == InitOneWorker /\ [][NextHttp]_vars

\* two workers serving requests for one track at the same time
NextWorkers ==
    \/ \E worker \in DOMAIN workers : Receive(worker, ConcurrentRequests)
    \/ \E worker \in DOMAIN workers : Lock(worker)
    \/ \E worker \in DOMAIN workers : CallGetTrack(worker)
    \/ \E worker \in DOMAIN workers : OpenFile(worker)
    \/ \E worker \in DOMAIN workers : ReadRange(worker)

InitTwoWorkers == InitHttp(2)

SpecWorkers == InitTwoWorkers /\ [][NextWorkers]_vars

(***************************************************************************)
(* Properties of the HTTP layer.                                           *)
(***************************************************************************)
\* the requests that have been answered, with what the worker kept of them
Answered ==
    {[request |-> CHOOSE r \in workers[i].request : TRUE,
      err |-> workers[i].err,
      file |-> workers[i].file,
      response |-> CHOOSE r \in workers[i].response : TRUE]
        : i \in {j \in DOMAIN workers : workers[j].pc = "done"}}

\* the requests for the bytes of a track that carried a Range header and
\* whose file was found and opened
Ranged(routes) ==
    {a \in Answered : /\ a.request.route \in routes
                      /\ a.request.range # {}
                      /\ a.file # {}}

RangeOf(a) == CHOOSE h \in a.request.range : TRUE

FileOf(a) == CHOOSE b \in a.file : TRUE

IsNumber(s) == s # <<>> /\ \A i \in 1..Len(s) : DigitValue(s[i]) >= 0

\* the two sides of the '-' of a header of the unit bytes
RangeParts(h) == IF starts_with(h, BytesUnit) THEN split(Suffix(h, 7), "-")
                 ELSE <<>>

\* bytes=<start>-<end> or bytes=<start>-, with numbers
WellFormedRange(h) ==
    /\ Len(RangeParts(h)) = 2
    /\ IsNumber(RangeParts(h)[1])
    /\ RangeParts(h)[2] = <<>> \/ IsNumber(RangeParts(h)[2])

\* the header asks for the bytes start..end of a file of that size
AsksFor(h, start, end, file_size) ==
    \/ h = BytesUnit \o u64_to_string(start) \o <<"-">> \o u64_to_string(end)
    \/ /\ h = BytesUnit \o u64_to_string(start) \o <<"-">>
       /\ end = file_size - 1

\* the response serves the bytes start..end of the file
Serves(a, start, end) ==
    /\ a.response.status_code = 206
    /\ <<"Content-Range", content_range(start, end, Len(FileOf(a)))>>
          \in a.response.headers
    /\ AcceptRanges \in a.response.headers
    /\ Len(a.response.data) = end - start + 1
    /\ \A k \in 0..(end - start) :
          a.response.data[k + 1] = FileOf(a)[start + k + 1]

ServesFullFile(a) ==
    /\ a.response.status_code = 200
    /\ AcceptRanges \in a.response.headers
    /\ a.response.data = FileOf(a)

\* C13: a Range header bytes=<start>-<end> that violates start <= end and
\* end < file_size fails with InvalidRange and status 416, and a range is
\* never clamped: for every header value the response serves exactly the
\* requested start and end, or is a 416, or is the full file with 200
C13_RangeNeverClamped ==
    \A a \in Ranged({"stream"}) :
        LET h == RangeOf(a)
            size == Len(FileOf(a))
        IN  /\ ( /\ WellFormedRange(h)
                 /\ ~ \E start, end \in 0..(size - 1) :
                        start <= end /\ AsksFor(h, start, end, size) )
                => /\ a.err = "InvalidRange"
                   /\ a.response.status_code = 416
            /\ \/ \E start, end \in 0..(size - 1) :
                     AsksFor(h, start, end, size) /\ Serves(a, start, end)
               \/ a.response.status_code = 416
               \/ ServesFullFile(a)

\* C14: a Range header bytes=start-end with start <= end < file_size is
\* answered with status 206, Content-Range: bytes start-end/file_size,
\* Accept-Ranges: bytes and exactly the bytes start..end of the file
C14_SatisfiedRange ==
    \A a \in Ranged({"stream", "play"}) :
        \A start, end \in 0..(Len(FileOf(a)) - 1) :
            ( /\ start <= end
              /\ a.err = "none"
              /\ RangeOf(a) = BytesUnit \o u64_to_string(start) \o <<"-">>
                                 \o u64_to_string(end) )
            => Serves(a, start, end)

C14_Witness ==
    \E a \in Ranged({"stream"}) :
        /\ RangeOf(a) = BytesUnit \o <<"1", "-", "2">>
        /\ Len(FileOf(a)) = 3
        /\ Serves(a, 1, 2)
        /\ a.response.data = <<"1", "2">>

\* C15: a stream request without a Range header, or with one that is not of
\* the form bytes=<start>-<end> with numbers, is answered with the full
\* file, status 200 and Accept-Ranges: bytes
C15_UnparseableRangeIsFullFile ==
    \A a \in {b \in Answered : b.request.route = "stream" /\ b.file # {}} :
        (a.request.range = {} \/ ~WellFormedRange(RangeOf(a)))
        => ServesFullFile(a)

\* the status that belongs to the failure of a request
StatusOfFailure(err) ==
    CASE err = "TrackNotFound" -> 404
      [] err = "InvalidTrackId" -> 400
      [] err = "InvalidTrackFile" -> 400
      [] err = "InvalidRange" -> 416
      [] err \in {"Database", "Fs", "Internal", "panic"} -> 500

\* the reason text of the failure of a request for the identity hex
ReasonOfFailure(err, hex) ==
    CASE err = "TrackNotFound" -> <<"track ">> \o hex \o <<" not found">>
      [] err = "InvalidTrackFile" ->
            <<"track ">> \o hex \o <<" has no valid files">>
      [] err = "InvalidTrackId" -> <<"invalid track id">>
      [] err = "InvalidRange" -> <<"invalid byte range">>
      [] err \in {"Database", "Fs", "Internal", "panic"} ->
            <<"internal server error">>

\* C16: GET /play without h is answered with 400; with h, every failure of
\* the resolution or of the streaming is answered with a 200 HTML page that
\* echoes the status and the reason of the error, with the external link
\* built from y when y was given and the generic page otherwise
C16_PlayFallsBack ==
    \A a \in {b \in Answered : b.request.route = "play"} :
        /\ a.request.id = {} => a.response.status_code = 400
        /\ (a.request.id # {} /\ a.err # "none")
           => /\ a.response.status_code = 200
              /\ a.response.content_type = "text/html"
              /\ contains(a.response.data,
                          u64_to_string(StatusOfFailure(a.err)))
              /\ contains(a.response.data,
                          ReasonOfFailure(a.err,
                                          CHOOSE h \in a.request.id : TRUE))
              /\ \A yid \in a.request.y :
                    contains(a.response.data, youtube_url(yid))
              /\ a.request.y = {}
                    => /\ contains(a.response.data, <<"no youtube link">>)
                       /\ ~contains(a.response.data, <<"https://youtu.be/">>)

\* C17: every error kind has one fixed status, and /tracks/{id} and
\* /tracks/{id}/stream answer a failed request with the status of its error:
\* unknown identity 404, identity that is not hex 400, no valid file 400,
\* unsatisfiable range 416, database, file-system and internal failures 500
C17_ErrorStatus ==
    \A a \in {b \in Answered : b.request.route \in {"track", "stream"}} :
        a.err # "none"
        => /\ a.response.status_code = StatusOfFailure(a.err)
           /\ a.response.content_type \in {"text/plain", "text/html"}

C17_Witness ==
    \E a \in Answered :
        /\ a.request.route = "stream"
        /\ a.err = "InvalidRange"
        /\ a.response.status_code = 416

\* C18: the workers share the catalog behind one lock: at most one worker
\* is in get_track at any time, and a worker in get_track holds the lock
C18_MutualExclusion ==
    /\ Cardinality({i \in DOMAIN workers : workers[i].pc = "get_track"}) <= 1
    /\ Cardinality(lock.held_by) <= 1
    /\ \A i \in DOMAIN workers :
          workers[i].pc = "get_track" => i \in lock.held_by

C18_Witness ==
    \E i, j \in DOMAIN workers :
        /\ workers[i].pc = "get_track"
        /\ i \in lock.held_by
        /\ workers[j].pc = "lock"

\* C19: a worker holds the lock only for its call of get_track: a worker
\* that opens, seeks or reads the file of its request does not hold it
C19_LockOnlyDuringGetTrack ==
    \A i \in lock.held_by : workers[i].pc = "get_track"

(***************************************************************************)
(* Properties of the reads, of the scan and of the ledger.                 *)
(***************************************************************************)
ReadOps == {"status", "list_tracks", "get_track", "find_files", "scan_db"}

\* C21: status, list_tracks, get_track, find_files and scan_db are
\* read-only: whatever they return, the tables tracks, files,
\* track_metadata and updates are as before the call, and no ledger row is
\* appended
C21_ReadsChangeNothing ==
    [][last'.op \in ReadOps
       => /\ UNCHANGED <<tracks, files, track_metadata, updates>>
          /\ Len(updates') = Len(updates)]_vars

\* a read of a catalog that has rows in every table has failed
C21_Witness ==
    /\ last.op \in {"status", "list_tracks"}
    /\ ~last.ok
    /\ files # EmptyBag
    /\ track_metadata # {}
    /\ updates # <<>>

\* a string in lower case and without space, hyphen, underscore and period
RECURSIVE Normalized(_)
Normalized(str) ==
    IF str = <<>> THEN <<>>
    ELSE LET c == Head(str) IN
         (IF c \in {" ", "-", "_", "."} THEN <<>>
          ELSE IF \E i \in 1..Len(UpperCase) : UpperCase[i] = c
          THEN <<LowerCase[CHOOSE i \in 1..Len(UpperCase) : UpperCase[i] = c]>>
          ELSE <<c>>)
         \o Normalized(Tail(str))

IsSubstring(needle, str) ==
    \E i \in 1..(Len(str) + 1), j \in 0..Len(str) : SubSeq(str, i, j) = needle

\* C22: find_files(query) returns exactly the stored (identity, path) rows
\* whose normalized path contains the normalized query; the returned path
\* is the stored path
C22_FindFilesMatches ==
    last.op = "find_files"
    => /\ last.res.ok
       /\ last.res.value =
            {<<from_hex(r.track_id), r.path>> :
               r \in {q \in BagToSet(files) :
                        IsSubstring(Normalized(last.query),
                                    Normalized(q.path))}}

\* a query in another case and with a period finds one of two stored files
C22_Witness ==
    /\ last.op = "find_files"
    /\ last.query = <<"A", ".", "m">>
    /\ Cardinality(last.res.value) = 1
    /\ Cardinality(BagToSet(files)) = 2
    /\ \E r \in BagToSet(files) : <<from_hex(r.track_id), r.path>> \in last.res.value

(***************************************************************************)
(* Content identity as functions (domain/hash.rs): the calls of to_hex,    *)
(* from_hex and from_file on arguments drawn at the start.                 *)
(***************************************************************************)
MaxHexLen == 3

MaxContentLen == 2

\* every digest of one byte
Digests == 0..255

HexInputChars == {"0", "a", "9", "F", "D", "g"}

HexInputs == SeqsUpTo(HexInputChars, MaxHexLen)

\* the contents of files, as bytes
Contents == SeqsUpTo({"0", "1"}, MaxContentLen)

\* blake3::hash, as a function of the bytes into the digests of the model
RECURSIVE from_bytes(_)
from_bytes(bytes) ==
    IF bytes = <<>> THEN EmptyId
    ELSE (from_bytes(SubSeq(bytes, 1, Len(bytes) - 1)) * 3
            + DigitValue(bytes[Len(bytes)]) + 1) % 256

\* the files that are hashed: their bytes, and whether they can be read
HashedFiles ==
    {[readable |-> TRUE, bytes |-> b] : b \in Contents}
    \cup {[readable |-> FALSE, bytes |-> <<>>]}

\* TrackId::from_file
from_file(file) ==
    IF ~file.readable THEN Err("Fs") ELSE Ok(from_bytes(file.bytes))

HashedPaths == {AllPaths[1], AllPaths[4]}

InitHex ==
    /\ tracks = EmptyBag
    /\ files = EmptyBag
    /\ track_metadata = {}
    /\ updates = <<>>
    /\ lock = FreeLock
    /\ workers = <<>>
    /\ \/ \E id \in Digests : last = [op |-> "id", id |-> id]
       \/ \E hex \in HexInputs : last = [op |-> "hex", hex |-> hex]
       \/ \E disk \in [HashedPaths -> HashedFiles] :
             last = [op |-> "files", disk |-> disk]

ToHex ==
    /\ last.op = "id"
    /\ last' = [op |-> "to_hex", id |-> last.id, hex |-> to_hex(last.id),
                decoded |-> from_hex(to_hex(last.id))]
    /\ UNCHANGED <<tracks, files, track_metadata, updates, lock, workers>>

\* TrackId::from_hex and the response of handle_get_track to its failure
FromHex ==
    /\ last.op = "hex"
    /\ last' = [op |-> "from_hex", hex |-> last.hex, res |-> from_hex(last.hex),
                status_code |->
                    IF from_hex(last.hex) = -1
                    THEN into_response(
                             ApiError_from("InvalidTrackId", 0)).status_code
                    ELSE 200]
    /\ UNCHANGED <<tracks, files, track_metadata, updates, lock, workers>>

FromFile ==
    /\ last.op = "files"
    /\ last' = [op |-> "from_file", disk |-> last.disk,
                ids |-> [p \in HashedPaths |-> from_file(last.disk[p])]]
    /\ UNCHANGED <<tracks, files, track_metadata, updates, lock, workers>>

NextHex ==
    \/ ToHex
    \/ FromHex
    \/ FromFile

SpecHex == InitHex /\ [][NextHex]_vars

\* two characters, each a digit or a letter a..f in either case
IsHexOfADigest(str) ==
    /\ Len(str) = 2
    /\ \A i \in 1..Len(str) :
          str[i] \in {"0", "1", "2", "3", "4", "5", "6", "7", "8", "9",
                      "a", "b", "c", "d", "e", "f",
                      "A", "B", "C", "D", "E", "F"}

ReadableMusic(disk) ==
    {ObservedFile(disk[p].content, p) :
        p \in {q \in WalkedMusicPaths(disk) : disk[q].readable}}

\* C24: a file that cannot be read during a scan is left out of the
\* snapshot and the scan succeeds with all the other entries, and so do
\* status and update_db_with_new_files
C24_ScanSkipsUnreadable ==
    /\ \A disk \in Disks :
          /\ FsSnapshot_scan(disk).ok
          /\ Range(FsSnapshot_scan(disk).files) = ReadableMusic(disk)
    /\ last.op = "status" => last.ok
    /\ last.op = "update_db_with_new_files"
          => (last.res.ok \/ last.res.err # "Fs")

\* C25: the ledger row that update_db_with_new_files appends carries the
\* observed_at of the snapshot the call took, and after the commit the
\* catalog's updated_at is that timestamp
C25_LedgerCarriesObservedAt ==
    (last.op = "update_db_with_new_files" /\ last.res.ok)
    => /\ updates # <<>>
       /\ updates[Len(updates)] = last.observed_at
       /\ Len(updates) = 1 => scan_db(Catalog).updated_at = last.observed_at

(***************************************************************************)
(* The catalog writes statement by statement.  The tables are the          *)
(* committed database, which is what scan_db or get_track on any other     *)
(* connection reads; last is the call in progress on the writing           *)
(* connection, with the catalog as its open transaction sees it.           *)
(***************************************************************************)
NoCall == [op |-> "idle"]

\* the statements of a write that change rows: for insert_tracks two per
\* item and the insert into updates, for forget_path the DELETE and the
\* insert into updates
TxStatements(call) ==
    IF call.op = "insert_tracks" THEN 2 * Len(call.items) + 1 ELSE 2

\* the catalog in the transaction after statement k of the call
apply_statement(tx, call, k) ==
    IF call.op = "insert_tracks"
    THEN IF k = 2 * Len(call.items) + 1 THEN InsertUpdateRow(tx, call.now)
         ELSE LET item == call.items[(k + 1) \div 2]
                  track_id_str == to_hex(item[1])
              IN  IF k % 2 = 1 THEN InsertTrackRow(tx, track_id_str)
                  ELSE InsertFileRow(tx, FileRow(track_id_str,
                                                 to_string_lossy(item[2])))
    ELSE IF k = 1 THEN DeleteFileRows(tx, to_string_lossy(call.path))
         ELSE InsertUpdateRow(tx, call.now)

\* a database whose statements are visible to the others when they run
visible_at_once(committed, tx) == tx

\* SQLite shows the other connections the committed rows only
visible(committed, tx) == committed

\* the clock values of the writes: SystemTime::now() may step backwards
TxClock == 1..(MaxClock + 1)

InitTx ==
    /\ tracks = EmptyBag
    /\ files = EmptyBag
    /\ track_metadata = {}
    /\ updates = <<>>
    /\ last = NoCall
    /\ lock = FreeLock
    /\ workers = <<>>

\* insert_tracks opens its transaction
BeginInsert ==
    /\ last = NoCall
    /\ Len(updates) < MaxLedger
    /\ \E items \in InsertArgs, now \in TxClock :
          last' = [op |-> "insert_tracks", items |-> items, now |-> now,
                   path |-> <<>>, done |-> 0, tx |-> Catalog]
    /\ UNCHANGED <<tracks, files, track_metadata, updates, lock, workers>>

\* forget_path opens its transaction
BeginForget ==
    /\ last = NoCall
    /\ Len(updates) < MaxLedger
    /\ \E path \in ForgetArgs, now \in TxClock :
          last' = [op |-> "forget_path", items |-> <<>>, now |-> now,
                   path |-> path, done |-> 0, tx |-> Catalog]
    /\ UNCHANGED <<tracks, files, track_metadata, updates, lock, workers>>

\* the next statement of the call runs in its transaction
Execute ==
    /\ last # NoCall
    /\ last.done < TxStatements(last)
    /\ \E tx \in {apply_statement(last.tx, last, last.done + 1)} :
          /\ last' = [last EXCEPT !.done = @ + 1, !.tx = tx]
          /\ SetCatalog(visible(Catalog, tx))
    /\ UNCHANGED <<lock, workers>>

\* a statement or the commit fails and the transaction is dropped
AbortTx ==
    /\ last # NoCall
    /\ last' = NoCall
    /\ SetCatalog(Rollback(Catalog, last.tx))
    /\ UNCHANGED <<lock, workers>>

\* tx.commit()
CommitTx ==
    /\ last # NoCall
    /\ last.done = TxStatements(last)
    /\ last' = NoCall
    /\ SetCatalog(Commit(Catalog, last.tx))
    /\ UNCHANGED <<lock, workers>>

\* scan_db on another connection, between or during the writes; workers
\* holds the snapshot this reader got
ReadTx ==
    /\ workers' = <<scan_db(Catalog)>>
    /\ workers' # workers
    /\ SetCatalog(select_only(Catalog))
    /\ UNCHANGED <<last, lock>>

NextTx ==
    \/ ReadTx
    \/ BeginInsert
    \/ BeginForget
    \/ Execute
    \/ AbortTx
    \/ CommitTx

SpecTx == InitTx /\ [][NextTx]_vars

\* C26: the ledger row of an ingest or forget becomes visible together with
\* its data change: when a reader sees the row, every file and track row the
\* call inserted is there and every row it deleted is gone, and no data
\* change is visible without its ledger row
C26_LedgerInSameTransaction ==
    [][/\ updates' # updates
          => /\ Len(updates') = Len(updates) + 1
             /\ last.op = "insert_tracks"
                => \A i \in 1..Len(last.items) :
                      /\ BagIn(to_hex(last.items[i][1]), tracks')
                      /\ BagIn(FileRow(to_hex(last.items[i][1]),
                                       to_string_lossy(last.items[i][2])),
                               files')
             /\ last.op = "forget_path"
                => \A r \in BagToSet(files') :
                      ~UnderSubtree(r.path, to_string_lossy(last.path))
       /\ (tracks' # tracks \/ files' # files)
          => Len(updates') = Len(updates) + 1]_vars

\* a reader sees the committed catalog while a transaction has inserted
\* rows and not yet its ledger row
C26_Witness ==
    /\ last # NoCall
    /\ last.op = "insert_tracks"
    /\ last.done = 2
    /\ last.tx.files # files
    /\ last.tx.updates = updates
    /\ updates # <<>>

\* C27: the updated_at of a catalog snapshot is the largest timestamp of the
\* ledger, 0 when the ledger is empty; the ledger only grows at its end, and
\* a snapshot never has a smaller updated_at than the snapshot before it,
\* also when a later write recorded a smaller clock value
C27_UpdatedAtIsLedgerMaximum ==
    [][/\ Len(updates') >= Len(updates)
       /\ SubSeq(updates', 1, Len(updates)) = updates
       /\ (workers' # workers /\ workers'[1].ok)
          => /\ updates' = <<>> => workers'[1].updated_at = 0
             /\ updates' # <<>>
                => /\ workers'[1].updated_at \in Range(updates')
                   /\ \A t \in Range(updates') : t <= workers'[1].updated_at
             /\ (workers # <<>> /\ workers[1].ok)
                => workers'[1].updated_at >= workers[1].updated_at]_vars

\* a snapshot taken after a write that recorded a smaller clock value than
\* the write before it
C27_Witness ==
    /\ workers # <<>>
    /\ workers[1].ok
    /\ Len(updates) = 2
    /\ updates[2] < updates[1]
    /\ workers[1].updated_at = updates[1]

(***************************************************************************)
(* The read operations on a database file in which a files row has an      *)
(* identity that is text but not the hex form of a digest.  The facade     *)
(* never writes such a row; the database file comes with it.               *)
(***************************************************************************)
\* identities that TrackId::from_hex rejects: a wrong digit, a wrong length
CorruptIds == { <<"0", "g">>, <<"0">> }

CorruptPaths ==
    { <<"/", "m", "/", "s", "/", "a", ".", "m", "p", "3">>,
      to_string_lossy(AllPaths[4]) }

\* the rows that decode: any of the pairs the facade can have ingested
GoodRows == {FileRow(to_hex(t), to_string_lossy(p)) : t \in TrackIds, p \in Paths}

CorruptCatalogs ==
    {[tracks |-> SetToBag({r.track_id : r \in good} \cup {bad_id}),
      files |-> SetToBag(good \cup {FileRow(bad_id, bad_path)}),
      track_metadata |-> {},
      updates |-> ledger] :
        good \in SUBSET GoodRows, bad_id \in CorruptIds,
        bad_path \in CorruptPaths, ledger \in {<<>>, <<1>>}}

InitCorrupt ==
    /\ \E cat \in CorruptCatalogs :
          /\ tracks = cat.tracks
          /\ files = cat.files
          /\ track_metadata = cat.track_metadata
          /\ updates = cat.updates
    /\ last = [op |-> "new"]
    /\ lock = FreeLock
    /\ workers = <<>>

NextCorrupt ==
    \/ ScanDb
    \/ Status
    \/ UpdateDbWithNewFiles
    \/ ListTracks
    \/ FindFiles

SpecCorrupt == InitCorrupt /\ [][NextCorrupt]_vars

HasCorruptRow == \E r \in BagToSet(files) : from_hex(r.track_id) = -1

\* C28: with a files row whose identity does not decode, find_files leaves
\* that row out and returns every other match without error; scan_db,
\* status, list_tracks and update_db_with_new_files fail as a whole, and
\* the update writes nothing
C28_CorruptRowPerOperation ==
    [][HasCorruptRow
       => /\ last'.op = "find_files"
             => /\ last'.res.ok
                /\ last'.res.value =
                     {<<from_hex(r.track_id), r.path>> :
                        r \in {q \in BagToSet(files) :
                                 /\ from_hex(q.track_id) # -1
                                 /\ IsSubstring(Normalized(last'.query),
                                                Normalized(q.path))}}
          /\ last'.op \in {"scan_db", "status", "list_tracks"}
             => ~last'.ok
          /\ last'.op = "update_db_with_new_files"
             => /\ ~last'.res.ok
                /\ CatalogNext = Catalog]_vars

\* find_files has returned a match although a row with an undecodable
\* identity matches its query as well
C28_Witness ==
    /\ last.op = "find_files"
    /\ last.res.ok
    /\ last.res.value # {}
    /\ \E r \in BagToSet(files) :
          /\ from_hex(r.track_id) = -1
          /\ IsSubstring(Normalized(last.query), Normalized(r.path))

\* the (identity, path) pairs of the catalog that the disk does not hold
NotOnDisk(cat, disk) ==
    {<<from_hex(r.track_id), PathBuf_from(r.path)>> : r \in BagToSet(cat.files)}
    \ {<<f.track_id, f.path>> : f \in Range(scan_dirs(disk))}

\* update_db_with_new_files and then status, both on the same disk: what the
\* update returned and the status after it
Settled(cat, disk, now) ==
    LET fs == FsSnapshot_scan(disk)
        first == status(fs, scan_db(cat))
        up == update_db_with_new_files_inner(cat, first.diff, now, 0)
    IN  [update |-> up.res,
         cat |-> up.cat,
         status |-> status(fs, scan_db(select_only(up.cat)))]

\* C29: whatever the catalog has become while the file system was changing,
\* once the file system stays as it is (and can be scanned), one more
\* update_db_with_new_files followed by status gives the stable diff: no
\* identity has a new location, the deleted locations are exactly the
\* catalog's locations that are not on the disk, and a later status gives
\* the same diff
C29_ReconciliationConverges ==
    \A disk \in {d \in Disks : FsSnapshot_scan(d).ok}, now \in 1..MaxClock :
        LET s == Settled(Catalog, disk, now) IN
        /\ s.update.ok
        /\ s.status.ok
        /\ \A t \in DOMAIN s.status.diff :
              new_locations(s.status.diff[t]) = {}
        /\ UNION {{<<t, p>> : p \in deleted_locations(s.status.diff[t])}
                    : t \in DOMAIN s.status.diff}
             = NotOnDisk(s.cat, disk)
        /\ status(FsSnapshot_scan(disk), scan_db(select_only(s.cat))).diff
             = s.status.diff

\* C30: a Range header bytes=<start>- asks for the bytes from start to the
\* end of the file: for start < file_size the answer is 206 with
\* Content-Range: bytes start-(file_size - 1)/file_size and exactly
\* file_size - start bytes, for start >= file_size it is the 416 error
\* (requests whose file could not be read are left aside)
C30_OpenEndedRange ==
    \A a \in {b \in Ranged({"stream"}) : b.err # "Fs"} :
        \A start \in 0..MaxFileSize :
            RangeOf(a) = BytesUnit \o u64_to_string(start) \o <<"-">>
            => LET file_size == Len(FileOf(a)) IN
               IF start < file_size
               THEN /\ Serves(a, start, file_size - 1)
                    /\ Len(a.response.data) = file_size - start
               ELSE /\ a.err = "InvalidRange"
                    /\ a.response.status_code = 416

(***************************************************************************)
(* Properties of the play endpoint, of lookup and of the ledger count.     *)
(***************************************************************************)
\* the headers of a response that the two endpoints have to agree on
SharedHeaders(resp) ==
    {h \in resp.headers :
        h[1] \in {"Accept-Ranges", "Content-Range",
                  "X-Track-Artist", "X-Track-Title"}}

\* C31: for the same identity, Range header, catalog and file, whenever
\* GET /tracks/{id}/stream succeeds with 200 or 206, GET /play?h={id}
\* returns the same status, the same Accept-Ranges, Content-Range,
\* X-Track-Artist and X-Track-Title headers and the same body, with or
\* without y
C31_PlaySharesSuccessPath ==
    \A a, b \in Answered :
        ( /\ a.request.route = "stream"
          /\ b.request.route = "play"
          /\ a.request.id = b.request.id
          /\ a.request.range = b.request.range
          /\ a.file # {}
          /\ a.file = b.file
          /\ a.err = "none"
          /\ a.response.status_code \in {200, 206} )
        => /\ b.response.status_code = a.response.status_code
           /\ SharedHeaders(b.response) = SharedHeaders(a.response)
           /\ b.response.data = a.response.data

\* a stream and a play request for the same range of the same file have
\* both been answered with 206
C31_Witness ==
    \E a, b \in Answered :
        /\ a.request.route = "stream" /\ b.request.route = "play"
        /\ a.request.range = b.request.range
        /\ a.request.range # {}
        /\ a.file = b.file
        /\ a.response.status_code = 206
        /\ b.response.status_code = 206
        /\ Len(a.response.data) = 2

\* the disks on which a file may have been overwritten in place with a
\* content that was never there before
OverwrittenDisks ==
    [Paths -> DiskEntries \cup {File(t + 1) : t \in TrackIds}]

\* the catalog as it is, and as it is after one more successful
\* update_db_with_new_files on the disk
AfterRescan(cat, disk) ==
    LET fs == FsSnapshot_scan(disk) IN
    IF ~fs.ok THEN {cat}
    ELSE {cat, update_db_with_new_files_inner(
                   cat, status(fs, scan_db(cat)).diff, 1, 0).cat}

\* C32: whenever get_track(id) succeeds, the file at the returned path has
\* at that moment the content whose identity is id, also after a catalogued
\* file was overwritten in place and update_db_with_new_files has run again
C32_LookupKeepsContentAddress ==
    \A disk \in OverwrittenDisks, id \in TrackIds :
        \A cat \in AfterRescan(Catalog, disk) :
            \A r \in get_track(cat, id, disk) :
                r.ok => disk[r.value[2]].content = id

\* C33: forget_path(subtree) removes nothing outside the subtree: every
\* stored location whose path is neither subtree nor nested under
\* subtree + '/' is still in the catalog after the call, also for sibling
\* paths sharing the prefix, for subtrees with '_' or '%' in them and for
\* stored paths that differ from the subtree in letter case only
C33_ForgetKeepsOutside ==
    [][last'.op = "forget_path"
       => \A r \in BagToSet(files) :
             ~UnderSubtree(PathBuf_from(r.path), last'.path)
             => BagIn(r, files')]_vars

\* C34: after any sequence of insert_tracks, update_db_with_new_files and
\* forget_path calls on a new catalog, the identity of every files row has
\* a tracks row, and the files table holds no (identity, path) pair twice
C34_ReferentialIntegrity ==
    /\ \A r \in BagToSet(files) :
          /\ BagIn(r.track_id, tracks)
          /\ CopiesIn(r, files) = 1
    /\ \A r, q \in BagToSet(files) :
          ( /\ from_hex(r.track_id) = from_hex(q.track_id)
            /\ PathBuf_from(r.path) = PathBuf_from(q.path) )
          => r = q

\* an update has ingested a pair again that the files table already held,
\* and another write has committed beside it
C34_Witness ==
    /\ last.op = "update_db_with_new_files"
    /\ last.res.ok
    /\ last.res.value # <<>>
    /\ last.inserted = 0
    /\ files # EmptyBag
    /\ Len(updates) = 2

\* C35: a successful insert_tracks, update_db_with_new_files or forget_path
\* call appends exactly one row to the ledger, also when it inserted or
\* removed no location; a failed call appends none, and no other operation
\* changes the ledger: the ledger has one row for every successful
\* mutating call
C35_OneLedgerRowPerWrite ==
    [][IF last'.op \in Writes /\ last'.res.ok
       THEN /\ Len(updates') = Len(updates) + 1
            /\ SubSeq(updates', 1, Len(updates)) = updates
       ELSE updates' = updates]_vars

\* a forget_path under which nothing was stored has left its row in the
\* ledger, after the row of the write that stored a location elsewhere
C35_Witness ==
    /\ last.op = "forget_path"
    /\ last.res.ok
    /\ last.res.value.removed_files = 0
    /\ files # EmptyBag
    /\ Len(updates) = 2

\* C37: once the catalog lock is poisoned, a request that needs the catalog
\* is answered by its handler with the Internal error, status 500 or on
\* /play the fallback page, and the handler does not panic, for
\* GET /tracks/{id} as for GET /tracks/{id}/stream and GET /play
C37_PoisonedLockIsInternal ==
    [][\A w \in DOMAIN workers :
         ( /\ lock.poisoned
           /\ workers[w].pc = "lock"
           /\ workers'[w].pc = "done" )
         => \A req \in workers'[w].request, resp \in workers'[w].response :
              /\ workers'[w].err = "Internal"
              /\ resp = IF req.route = "play"
                        THEN render_fallback(req.y, 500,
                                 ApiError_to_string(
                                     ApiError_from("Internal",
                                                   workers[w].track_id)))
                        ELSE into_response(
                                 ApiError_from("Internal",
                                               workers[w].track_id))]_vars

\* the catalogs another connection can leave by one committed write
OtherWriter(cat) ==
    {insert_tracks(cat, items, 1, 0).cat : items \in InsertArgs}
    \cup {forget_path(cat, path, 1, 0).cat : path \in ForgetArgs}

\* C36: an update_db_with_new_files during which no other writer changes
\* the catalog inserts as many file rows as it returns locations; when
\* another connection writes between the read of the catalog and the
\* commit, the call still commits and returns the new locations of the
\* diff it computed
C36_InsertedEqualsReturned ==
    /\ ( last.op = "update_db_with_new_files" /\ last.res.ok )
       => last.inserted = Len(last.res.value)
    /\ \A fs \in ScanResults :
         \A st \in {status(fs, scan_db(Catalog))} :
           st.ok =>
             \A other \in OtherWriter(Catalog) :
               \A r \in {update_db_with_new_files_inner(other, st.diff,
                                                         1, 0)} :
                 /\ r.res = Ok(new_files(st.diff))
                 /\ r.inserted <= Len(new_files(st.diff))
                 /\ Len(r.cat.updates) = Len(other.updates) + 1

====
